---- MODULE Spec2Model ----
(***************************************************************************)
(* Model of the conversation/incident engine of the IT-incident chat       *)
(* assistant (backend/services/llm_service.py), of the incident store      *)
(* (backend/db/mongodb.py) and of the admin and end-of-session handlers    *)
(* (backend/routes).                                                       *)
(*                                                                         *)
(* handle_user_query is a coroutine: it is suspended at every await, and   *)
(* other coroutines of the same event loop run meanwhile.  One action of   *)
(* the model is the code that runs between two awaits; the code between    *)
(* two awaits runs without interruption (one event-loop thread).           *)
(*                                                                         *)
(* Session objects are Python dicts: the local variable `session` of a     *)
(* turn is a reference to the dict, which stays alive when                 *)
(* clear_session_data removes it from _session_data.  objs is the heap of  *)
(* those dicts, session_data maps an id to its dict.                       *)
(*                                                                         *)
(* The external collaborators (LLM, KB store, incident store) answer       *)
(* nondeterministically, failure included.  Timestamps are left out: no    *)
(* control flow reads them.  Incident ids (timestamp + random suffix) are  *)
(* drawn fresh from a counter.  Similarities are in hundredths.            *)
(*                                                                         *)
(* Spec and SpecIso are the engine, its turns serialized per session by    *)
(* the caller; under SpecOverlap the turns of one session overlap.         *)
(* SpecKB is the knowledge base: the KB                                    *)
(* file, its parser and the ingestion into the vector store                *)
(* (backend/db/chromadb.py, backend/services/kb_service.py).  SpecSearch   *)
(* is hybrid_search_kb on a store and a query.  SpecPool is the thread     *)
(* pool through which every LLM call goes.  SpecAdmin is the admin         *)
(* endpoints with their responses.  Each specification leaves the          *)
(* variables of the others as they are.                                    *)
(***************************************************************************)
EXTENDS Integers, Sequences, FiniteSets, TLC

\* ------------------------------------------------------------------ bounds
MaxTurns == 2
MaxClears == 1
MaxAdminOps == 1
MaxInFlight == 2

\* --------------------------------------------------------------- constants
\* 0.3, the acceptance threshold of a KB match, in hundredths
AcceptThreshold == 30

Sessions == {"s1", "s2"}
\* the sessions that chat under Spec
ChatSessions == {"s1"}
Slots == 1..MaxInFlight
Queries == {"outlook not opening"}
\* texts the reply-generation LLM may answer with
Replies == {"What operating system are you using?",
            "Thanks. I have all the information needed."}
EnhancedReply == "Let us go through the KB steps."
error_msg == "I encountered an error. Please try again."

VARIABLES
    session_data,   \* _session_data: session id -> index in objs, 0 when absent
    objs,           \* the session dicts ever created, in creation order
    incidents,      \* incidents_collection: the documents in insertion order
    turns,          \* per slot: the locals of an in-flight handle_user_query
    returned,       \* per slot: what the last finished call returned
    searches,       \* per session dict: number of hybrid_search_kb calls (history)
    creates,        \* per session dict: number of create_incident calls (history)
    uuid_counter,   \* number of incident ids generated so far
    nturns,         \* number of turns started
    nclears,        \* number of clear_session_data / end_session calls
    nadmin,         \* number of admin updates
    kb_file,        \* the lines of the file at KB_FILE_PATH
    collection,     \* the "knowledge_base" collection: its entries
    kb_run,         \* the last knowledge-base operation and its outcome (history)
    distances,      \* vector distance of every stored entry from the query
    search,         \* the last hybrid_search_kb call and its result
    pool,           \* per session: where its turn stands with the executor
    admin_response  \* the response of the last admin request

\* the engine and the incident store
engine_vars == <<session_data, objs, incidents, turns, returned, searches,
                 creates, uuid_counter, nturns, nclears, nadmin>>
\* the knowledge base: file and vector store
kb_vars == <<kb_file, collection, kb_run>>
search_vars == <<distances, search>>
pool_vars == <<pool>>
admin_vars == <<admin_response>>

vars == <<session_data, objs, incidents, turns, returned, searches, creates,
          uuid_counter, nturns, nclears, nadmin, kb_file, collection, kb_run,
          distances, search, pool, admin_response>>

\* incident_id None
NoId == 0

\* llm_service.py:40-51
NewSession ==
    [conversation |-> <<>>,
     kb_searched |-> FALSE,
     incident_created |-> FALSE,
     incident_id |-> NoId,
     status |-> "No Incident",
     kb_chunk |-> {},
     current_step |-> 0,
     required_info_gathered |-> FALSE,
     all_steps_completed |-> FALSE,
     previous_status |-> "No Incident"]

Message(sender, text) == [sender |-> sender, text |-> text]

\* the empty dict of state updates
NoUpdates == [k \in {} |-> ""]

\* the locals of handle_user_query; idle when no call is in flight in the slot.
\* state_session and state_updates are the `session` and `state_updates`
\* locals of _llm_update_session_state (NoUpdates until the parse returned),
\* incident_data (a sequence of at most one document) the argument of create_incident,
\* incident_id and status the arguments of update_incident_in_db, update_data
\* (a sequence of at most one record) what it sends to update_incident,
\* failed tells the except branch (lines 224-241) from the try branch,
\* start (a sequence of at most one record) is what the turn found (history).
\* llm_calls, kb_queries and store_calls count the calls the turn has issued
\* to the LLM (run_in_executor), to the vector store (collection.query of
\* hybrid_search_kb) and to the incident store (history).
IdleTurn ==
    [pc |-> "idle", session_id |-> "", session |-> 0, query |-> "",
     response_text |-> "", should_handle_as_incident |-> FALSE,
     search_results |-> <<>>, kb_match_found |-> FALSE, start |-> <<>>,
     state_session |-> 0, state_updates |-> NoUpdates, incident_data |-> <<>>,
     incident_id |-> NoId, status |-> "", update_data |-> <<>>,
     failed |-> FALSE, llm_calls |-> 0, kb_queries |-> 0, store_calls |-> 0]

\* no knowledge-base operation has run yet
NoRun ==
    [op |-> "none", content |-> <<>>, valid |-> TRUE, parsed |-> FALSE,
     read_ok |-> TRUE, delete_ok |-> TRUE, add_ok |-> TRUE, chunks |-> <<>>,
     result |-> "none"]

\* no search has been called yet
NoSearch ==
    [called |-> FALSE, failed |-> FALSE, query |-> <<>>, n_results |-> 0,
     hybrid_results |-> <<>>, results |-> <<>>]

\* no admin request has been answered yet
NoResponse ==
    [op |-> "none", store_failed |-> FALSE, code |-> 0, count |-> 0,
     incident |-> 0]

\* the state of the engine after import of llm_service.py and mongodb.py
EngineInit ==
    /\ session_data = [s \in Sessions |-> 0]
    /\ objs = <<>>
    /\ incidents = <<>>
    /\ turns = [t \in Slots |-> IdleTurn]
    /\ returned = [t \in Slots |-> <<>>]
    /\ searches = <<>>
    /\ creates = <<>>
    /\ uuid_counter = 0
    /\ nturns = 0
    /\ nclears = 0
    /\ nadmin = 0

\* an empty knowledge base, no query, no turn in the executor, no admin request
KbIdle == kb_file = <<"">> /\ collection = {} /\ kb_run = NoRun
SearchIdle == distances = <<>> /\ search = NoSearch
PoolIdle == pool = <<>>
AdminIdle == admin_response = NoResponse

Init == EngineInit /\ KbIdle /\ SearchIdle /\ PoolIdle /\ AdminIdle

\* ------------------------------------------------------- incident store
\* mongodb.py find_one({"incident_id": id}): index of the first match, 0 if none
FindIndex(docs, id) ==
    IF \E i \in DOMAIN docs : docs[i].incident_id = id
    THEN CHOOSE i \in DOMAIN docs :
            /\ docs[i].incident_id = id
            /\ \A j \in DOMAIN docs : docs[j].incident_id = id => i <= j
    ELSE 0


\* ---------------------------------------------- handle_user_query, by await
\* the session dict re-initialised by every call (the test at line 39 dropped)
SessionAtStart_Reset(present, session) == NewSession

\* llm_service.py:39-51: the dict the turn works on
SessionAtStart(present, session) == IF present THEN session ELSE NewSession

\* what a turn found when it started (history, read by the properties only)
StartOf(session, nsearches, ncreates) ==
    [status |-> session.status, kb_searched |-> session.kb_searched,
     incident_created |-> session.incident_created,
     searches |-> nsearches, creates |-> ncreates, session |-> session]

\* llm_service.py:31-61 and the call at 146: the code up to the first await,
\* whether or not another call with the same session id is in flight
handle_user_query(t, s, q) ==
    /\ nturns < MaxTurns
    /\ turns[t].pc = "idle"
    /\ \A u \in Slots : u < t => turns[u].pc # "idle"
    /\ LET present == session_data[s] # 0
           o == IF present THEN session_data[s] ELSE Len(objs) + 1
           base == SessionAtStart(present, IF present THEN objs[o] ELSE NewSession)
           cur == [base EXCEPT !.conversation = Append(@, Message("User", q))]
       IN /\ objs' = IF present THEN [objs EXCEPT ![o] = cur] ELSE Append(objs, cur)
          /\ searches' = IF present THEN searches ELSE Append(searches, 0)
          /\ creates' = IF present THEN creates ELSE Append(creates, 0)
          /\ session_data' = [session_data EXCEPT ![s] = o]
          /\ turns' = [turns EXCEPT ![t] =
                 [IdleTurn EXCEPT !.pc = "llm_reply", !.session_id = s,
                                  !.session = o, !.query = q, !.llm_calls = 1,
                                  !.start = <<StartOf(base, searches'[o], creates'[o])>>]]
    /\ nturns' = nturns + 1
    /\ UNCHANGED <<incidents, returned, uuid_counter, nclears, nadmin>>
    /\ UNCHANGED <<kb_vars, search_vars, pool_vars, admin_vars>>

\* a call of handle_user_query by a caller that serializes the turns of one
\* session id (at most one request in flight per session)
StartTurn(t, s, q) ==
    /\ \A u \in Slots : turns[u].pc # "idle" => turns[u].session_id # s
    /\ handle_user_query(t, s, q)

\* the except branch returning no reply text
ErrorResult_NoText == <<"", NoId, "Error">>

\* llm_service.py:241: the result of the except branch
ErrorResult == <<error_msg, NoId, "Error">>

\* llm_service.py:220-222 (try branch) and 241 (except branch): the return
Finish(t, O, T) ==
    LET o == T.session
    IN IF T.failed
       THEN /\ objs' = O
            /\ returned' = [returned EXCEPT ![t] = ErrorResult]
            /\ turns' = [turns EXCEPT ![t] = IdleTurn]
       ELSE /\ objs' = [O EXCEPT ![o].previous_status = O[o].status]
            /\ returned' = [returned EXCEPT ![t] =
                   <<T.response_text, O[o].incident_id, O[o].status,
                     O[o].previous_status # O[o].status>>]
            /\ turns' = [turns EXCEPT ![t] = IdleTurn]

\* llm_service.py:224-241: the except branch up to its await (get_incident)
Except(t, O, T) ==
    LET o == T.session
        O1 == [O EXCEPT ![o].conversation = Append(@, Message("AI", error_msg))]
        T1 == [T EXCEPT !.failed = TRUE, !.incident_id = O1[o].incident_id,
                        !.status = "Error"]
    IN IF O1[o].incident_id # NoId
       THEN /\ objs' = O1
            /\ turns' = [turns EXCEPT ![t] =
                   [T1 EXCEPT !.pc = "db_get", !.store_calls = @ + 1]]
            /\ UNCHANGED returned
       ELSE Finish(t, O1, T1)

\* llm_service.py:216-219: persistence of the try branch, up to get_incident
Persist(t, O, T) ==
    LET o == T.session
    IN IF O[o].incident_id # NoId
       THEN /\ objs' = O
            /\ turns' = [turns EXCEPT ![t] =
                   [T EXCEPT !.pc = "db_get", !.incident_id = O[o].incident_id,
                             !.status = O[o].status, !.store_calls = @ + 1]]
            /\ UNCHANGED returned
       ELSE Finish(t, O, T)

\* llm_service.py:205-214 and 356-359: the AI message is appended, then
\* _llm_update_session_state looks the session up (KeyError when it is gone)
\* and awaits the state LLM
CallUpdateState(t, O, T) ==
    LET o == T.session
        O1 == [O EXCEPT ![o].conversation = Append(@, Message("AI", T.response_text))]
    IN IF session_data[T.session_id] = 0
       THEN Except(t, O1, T)
       ELSE /\ objs' = O1
            /\ turns' = [turns EXCEPT ![t] =
                   [T EXCEPT !.pc = "llm_state", !.llm_calls = @ + 1,
                             !.state_session = session_data[T.session_id]]]
            /\ UNCHANGED returned

\* texts the classification LLM may answer with
DetectContents == {"TRUE", " true", "FALSE", "Yes"}

\* llm_service.py:293: response.content.strip().upper()
StripUpper(content) ==
    CASE content = " true" -> "TRUE"
      [] content = "Yes" -> "YES"
      [] OTHER -> content

\* llm_service.py:284-301: _llm_detect_it_incident's answer; failed is the
\* except branch (default True)
DetectDecision(failed, content) ==
    IF failed THEN TRUE ELSE StripUpper(content) = "TRUE"

\* what hybrid_search_kb(query, n_results=2) may return: at most two results,
\* best first; the empty list is an empty KB store or a caught search error
\* (chromadb.py:143-189)
SearchOutcomes ==
    { <<>>,
      <<[kb_id |-> 1, similarity |-> 30]>>,
      <<[kb_id |-> 1, similarity |-> 31]>>,
      <<[kb_id |-> 2, similarity |-> 74], [kb_id |-> 1, similarity |-> 31]>> }

\* line 160 without its test of kb_searched
ShouldSearch_IgnoreFlag(should_handle_as_incident, session) ==
    should_handle_as_incident

\* llm_service.py:160
ShouldSearch(should_handle_as_incident, session) ==
    should_handle_as_incident /\ ~session.kb_searched

\* llm_service.py:164
KbMatchFound(search_results) ==
    search_results # <<>> /\ search_results[1].similarity > AcceptThreshold

\* llm_service.py:167-172
WithKbMatch(session, search_results) ==
    [session EXCEPT !.kb_chunk = {[kb_id |-> search_results[1].kb_id,
                                   similarity |-> search_results[1].similarity]},
                    !.status = "Pending Information"]

\* llm_service.py:179-180
WithoutKbMatch(session) ==
    [session EXCEPT !.status = "Pending Admin Review", !.kb_chunk = {}]

\* line 183 left out
MarkSearched_Skip(session) == session

\* llm_service.py:183
MarkSearched(session) == [session EXCEPT !.kb_searched = TRUE]

\* line 186 without its test of incident_created
NeedsIncident_Always(session) == TRUE

\* llm_service.py:186
NeedsIncident(session) == ~session.incident_created

\* line 189 left out
MarkCreated_NoFlag(session, incident_id) ==
    [session EXCEPT !.incident_id = incident_id]

\* llm_service.py:188-189
MarkCreated(session, incident_id) ==
    [session EXCEPT !.incident_id = incident_id, !.incident_created = TRUE]

\* f"KB_{kb_id}" for the kb ids of SearchOutcomes
KbRefText == <<"KB_1", "KB_2">>

\* llm_service.py:196
KbReference(session) ==
    IF session.kb_chunk # {}
    THEN KbRefText[(CHOOSE c \in session.kb_chunk : TRUE).kb_id]
    ELSE "No KB Match"

\* llm_service.py:192-200: incident_data; priority and admin_messages are
\* absent from a new document ("None", <<>>)
IncidentData(session, incident_id, query) ==
    [incident_id |-> incident_id,
     user_demand |-> query,
     status |-> session.status,
     kb_reference |-> KbReference(session),
     additional_info |-> session.conversation,
     priority |-> "None",
     admin_messages |-> <<>>]

\* llm_service.py:183-203: up to the await of create_incident
CreateIncident(t, O, T) ==
    LET o == T.session
        O1 == [O EXCEPT ![o] = MarkSearched(@)]
    IN IF NeedsIncident(O1[o])
       THEN LET id == uuid_counter + 1
                O2 == [O1 EXCEPT ![o] = MarkCreated(@, id)]
            IN /\ uuid_counter' = id
               /\ creates' = [creates EXCEPT ![o] = @ + 1]
               /\ objs' = O2
               /\ turns' = [turns EXCEPT ![t] =
                      [T EXCEPT !.pc = "db_create", !.store_calls = @ + 1,
                                !.incident_data = <<IncidentData(O2[o], id, T.query)>>]]
               /\ UNCHANGED returned
       ELSE /\ CallUpdateState(t, O1, T)
            /\ UNCHANGED <<uuid_counter, creates>>

\* llm_service.py:146-158 and 224: the reply-generation LLM returns content
\* or fails; on success _llm_detect_it_incident looks the session up (250)
\* and awaits
ReplyReturn(t, failed, content) ==
    /\ turns[t].pc = "llm_reply"
    /\ IF failed
       THEN Except(t, objs, turns[t])
       ELSE LET T == [turns[t] EXCEPT !.response_text = content]
            IN IF session_data[T.session_id] = 0
               THEN Except(t, objs, T)
               ELSE /\ turns' = [turns EXCEPT ![t] =
                           [T EXCEPT !.pc = "llm_detect", !.llm_calls = @ + 1]]
                    /\ UNCHANGED <<objs, returned>>
    /\ UNCHANGED <<session_data, incidents, searches, creates, uuid_counter,
                   nturns, nclears, nadmin>>
    /\ UNCHANGED <<kb_vars, search_vars, pool_vars, admin_vars>>

\* llm_service.py:158-181: the classification returns; the search, and the
\* code up to the next await (enhance, create_incident or the state LLM)
\* search_results is what hybrid_search_kb returns if it is called
DetectReturn(t, failed, content, search_results) ==
    /\ turns[t].pc = "llm_detect"
    /\ LET should == DetectDecision(failed, content)
           o == turns[t].session
           T == [turns[t] EXCEPT !.should_handle_as_incident = should]
           T1 == [T EXCEPT !.search_results = search_results,
                           !.kb_match_found = KbMatchFound(search_results),
                           !.kb_queries = @ + 1]
       IN IF ShouldSearch(should, objs[o])
          THEN /\ searches' = [searches EXCEPT ![o] = @ + 1]
               /\ IF KbMatchFound(search_results)
                  THEN LET O1 == [objs EXCEPT ![o] = WithKbMatch(@, search_results)]
                       IN /\ IF session_data[T.session_id] = 0
                             THEN Except(t, O1, T1)
                             ELSE /\ objs' = O1
                                  /\ turns' = [turns EXCEPT ![t] =
                                         [T1 EXCEPT !.pc = "llm_enhance",
                                                    !.llm_calls = @ + 1]]
                                  /\ UNCHANGED returned
                          /\ UNCHANGED <<uuid_counter, creates>>
                  ELSE CreateIncident(t, [objs EXCEPT ![o] = WithoutKbMatch(@)], T1)
          ELSE /\ CallUpdateState(t, objs, T)
               /\ UNCHANGED <<searches, uuid_counter, creates>>
    /\ UNCHANGED <<session_data, incidents, nturns, nclears, nadmin>>
    /\ UNCHANGED <<kb_vars, search_vars, pool_vars, admin_vars>>

\* llm_service.py:338-349: _llm_enhance_with_kb's answer; failed is its
\* except branch
llm_enhance_with_kb(original_response, failed, content) ==
    IF failed THEN original_response ELSE content

\* llm_service.py:176-177: the enhancement LLM returns content or fails
EnhanceReturn(t, failed, content) ==
    /\ turns[t].pc = "llm_enhance"
    /\ CreateIncident(t, objs,
          [turns[t] EXCEPT !.response_text =
              llm_enhance_with_kb(turns[t].response_text, failed, content)])
    /\ UNCHANGED <<session_data, incidents, searches, nturns, nclears, nadmin>>
    /\ UNCHANGED <<kb_vars, search_vars, pool_vars, admin_vars>>

\* mongodb.py:37-51: insert_one succeeds or raises (caught, False returned)
create_incident(docs, incident_data, ok) ==
    IF ok THEN Append(docs, incident_data) ELSE docs

\* llm_service.py:202-214: create_incident returns
CreateReturn(t, ok) ==
    /\ turns[t].pc = "db_create"
    /\ incidents' = create_incident(incidents, turns[t].incident_data[1], ok)
    /\ CallUpdateState(t, objs, [turns[t] EXCEPT !.incident_data = <<>>])
    /\ UNCHANGED <<session_data, searches, creates, uuid_counter,
                   nturns, nclears, nadmin>>
    /\ UNCHANGED <<kb_vars, search_vars, pool_vars, admin_vars>>

\* ------------------------------------------------ _llm_update_session_state
\* What the parsing LLM may answer with (parsed_text), as its lines; a line
\* holding a colon is <<text before the first colon, text after it>>, any
\* other line is <<text>>.
ParsedTexts ==
    { <<>>,
      << <<"STATUS", " Pending Information">> >>,
      << <<"STATUS", " Pending Admin Review">> >>,
      << <<"STATUS", " Open">>, <<"STEP", " 1">>, <<"INFO_GATHERED", " True">>,
         <<"ALL_STEPS_DONE", " false">> >>,
      << <<"STATUS", " Resolved">>, <<"STEP", " 1">>, <<"INFO_GATHERED", " true">>,
         <<"ALL_STEPS_DONE", " true">> >>,
      << <<"Here are the fields">>, <<"STATUS", " Closed">>, <<"STEP", " [new_step]">> >>,
      << <<" STATUS ", " No Incident">>, <<"ALL_STEPS_DONE", " no">> >>,
      << <<"NOTE", " nothing to update">> >> }

\* str.strip() on the texts of ParsedTexts
Strip(text) ==
    CASE text = " Pending Information" -> "Pending Information"
      [] text = " Pending Admin Review" -> "Pending Admin Review"
      [] text = " Open" -> "Open"
      [] text = " Resolved" -> "Resolved"
      [] text = " Closed" -> "Closed"
      [] text = " No Incident" -> "No Incident"
      [] text = " STATUS " -> "STATUS"
      [] text = " 1" -> "1"
      [] text = " True" -> "True"
      [] text = " true" -> "true"
      [] text = " false" -> "false"
      [] text = " no" -> "no"
      [] text = " [new_step]" -> "[new_step]"
      [] text = " nothing to update" -> "nothing to update"
      [] OTHER -> text

\* str.lower() on the values of INFO_GATHERED and ALL_STEPS_DONE
Lower(text) == IF text = "True" THEN "true" ELSE text

\* int(text): <<n>>, or <<>> for ValueError (caught at 419)
ToInt(text) == IF text = "1" THEN <<1>> ELSE <<>>

RECURSIVE ParseLines(_)
\* llm_service.py:468-476: the dict built from the lines, a later line
\* overriding an earlier one with the same key
ParseLines(lines) ==
    IF lines = <<>> THEN [k \in {} |-> ""]
    ELSE LET n == Len(lines)
             rest == ParseLines(SubSeq(lines, 1, n - 1))
             line == lines[n]
         IN IF Len(line) = 2
            THEN [k \in DOMAIN rest \cup {Strip(line[1])} |->
                     IF k = Strip(line[1]) THEN Strip(line[2]) ELSE rest[k]]
            ELSE rest

\* _llm_parse_state_updates with an except branch that reports an error status
llm_parse_state_updates_ErrorStatus(failed, parsed_text) ==
    IF failed THEN [k \in {"STATUS"} |-> "Error"] ELSE ParseLines(parsed_text)

\* llm_service.py:458-480: _llm_parse_state_updates; failed is its except
\* branch, which returns {}
llm_parse_state_updates(failed, parsed_text) ==
    IF failed THEN [k \in {} |-> ""] ELSE ParseLines(parsed_text)

\* lines 413-414 applying STATUS only once the required information is gathered
ApplyStatus_Gated(session, state_updates) ==
    IF "STATUS" \in DOMAIN state_updates /\ session.required_info_gathered
    THEN [session EXCEPT !.status = state_updates["STATUS"]]
    ELSE session

\* llm_service.py:413-414
ApplyStatus(session, state_updates) ==
    IF "STATUS" \in DOMAIN state_updates
    THEN [session EXCEPT !.status = state_updates["STATUS"]]
    ELSE session

\* llm_service.py:416-420
ApplyStep(session, state_updates) ==
    IF "STEP" \in DOMAIN state_updates /\ ToInt(state_updates["STEP"]) # <<>>
    THEN [session EXCEPT !.current_step = ToInt(state_updates["STEP"])[1]]
    ELSE session

\* llm_service.py:422-426
ApplyFlags(session, state_updates) ==
    LET s1 == IF "INFO_GATHERED" \in DOMAIN state_updates
              THEN [session EXCEPT !.required_info_gathered =
                        Lower(state_updates["INFO_GATHERED"]) = "true"]
              ELSE session
    IN IF "ALL_STEPS_DONE" \in DOMAIN state_updates
       THEN [s1 EXCEPT !.all_steps_completed =
                 Lower(state_updates["ALL_STEPS_DONE"]) = "true"]
       ELSE s1

\* lines 412-426 starting the session afresh when the status becomes No Incident
ApplyUpdates_Reset(session, state_updates) ==
    LET s1 == ApplyFlags(ApplyStep(ApplyStatus(session, state_updates),
                                   state_updates), state_updates)
    IN IF s1.status = "No Incident"
       THEN [NewSession EXCEPT !.conversation = session.conversation]
       ELSE s1

\* llm_service.py:412-426
ApplyUpdates(session, state_updates) ==
    ApplyFlags(ApplyStep(ApplyStatus(session, state_updates), state_updates),
               state_updates)

\* llm_service.py:398-410 and 430-431: the state LLM returns (the parsing LLM
\* is awaited next) or fails (caught: no update, persistence follows)
StateReturn(t, failed) ==
    /\ turns[t].pc = "llm_state"
    /\ IF failed
       THEN Persist(t, objs, turns[t])
       ELSE /\ turns' = [turns EXCEPT ![t] =
                   [@ EXCEPT !.pc = "llm_parse", !.llm_calls = @ + 1]]
            /\ UNCHANGED <<objs, returned>>
    /\ UNCHANGED <<session_data, incidents, searches, creates, uuid_counter,
                   nturns, nclears, nadmin>>
    /\ UNCHANGED <<kb_vars, search_vars, pool_vars, admin_vars>>

\* llm_service.py:410-428 and 216-219: the parsing LLM returns or fails; the
\* updates are applied to the dict _llm_update_session_state looked up
ParseReturn(t, failed, parsed_text) ==
    /\ turns[t].pc = "llm_parse"
    /\ LET state_updates == llm_parse_state_updates(failed, parsed_text)
           O1 == [objs EXCEPT ![turns[t].state_session] =
                      ApplyUpdates(@, state_updates)]
       IN Persist(t, O1, [turns[t] EXCEPT !.state_updates = state_updates])
    /\ UNCHANGED <<session_data, incidents, searches, creates, uuid_counter,
                   nturns, nclears, nadmin>>
    /\ UNCHANGED <<kb_vars, search_vars, pool_vars, admin_vars>>

\* mongodb.py:53-60: get_incident; not ok is its except branch (None)
get_incident(docs, incident_id, ok) ==
    IF ok THEN FindIndex(docs, incident_id) ELSE 0

\* mongodb.py:74-94: update_incident, $set of the fields in update_data
update_incident(docs, incident_id, fields, ok) ==
    LET i == FindIndex(docs, incident_id)
    IN IF ok /\ i # 0
       THEN [docs EXCEPT ![i] =
                [f \in DOMAIN docs[i] |->
                    IF f \in DOMAIN fields THEN fields[f] ELSE docs[i][f]]]
       ELSE docs

\* update_data holding the last message only instead of the full conversation
UpdateData_LastOnly(status, full_conversation) ==
    [status |-> status,
     additional_info |-> SubSeq(full_conversation, Len(full_conversation),
                                Len(full_conversation))]

\* update_data without its status field
UpdateData_NoStatus(status, full_conversation) ==
    [additional_info |-> full_conversation]

\* llm_service.py:490-494: update_data; full_conversation is the session's
\* list itself, read when the update is sent
UpdateData(status, full_conversation) ==
    [status |-> status, additional_info |-> full_conversation]

\* llm_service.py:486-499: get_incident returns inside update_incident_in_db;
\* the update is sent when the incident was found
GetReturn(t, ok) ==
    /\ turns[t].pc = "db_get"
    /\ IF get_incident(incidents, turns[t].incident_id, ok) # 0
       THEN /\ turns' = [turns EXCEPT ![t] =
                   [@ EXCEPT !.pc = "db_update", !.store_calls = @ + 1,
                             !.update_data =
                                 <<UpdateData(turns[t].status,
                                      objs[turns[t].session].conversation)>>]]
            /\ UNCHANGED <<objs, returned>>
       ELSE Finish(t, objs, turns[t])
    /\ UNCHANGED <<session_data, incidents, searches, creates, uuid_counter,
                   nturns, nclears, nadmin>>
    /\ UNCHANGED <<kb_vars, search_vars, pool_vars, admin_vars>>

\* llm_service.py:496-502, then 220-222 or 241: update_incident returns
UpdateReturn(t, ok) ==
    /\ turns[t].pc = "db_update"
    /\ incidents' = update_incident(incidents, turns[t].incident_id,
                                    turns[t].update_data[1], ok)
    /\ Finish(t, objs, turns[t])
    /\ UNCHANGED <<session_data, searches, creates, uuid_counter,
                   nturns, nclears, nadmin>>
    /\ UNCHANGED <<kb_vars, search_vars, pool_vars, admin_vars>>

\* ------------------------------------------------------- session queries
\* llm_service.py:504-507
get_session_incident_id(s) ==
    IF session_data[s] # 0 THEN objs[session_data[s]].incident_id ELSE NoId

\* llm_service.py:509-512
get_session_status(s) ==
    IF session_data[s] # 0 THEN objs[session_data[s]].status ELSE "No Incident"

\* clear_session_data emptying the whole session map
clear_session_data_All(s) ==
    /\ nclears < MaxClears
    /\ session_data[s] # 0
    /\ session_data' = [x \in Sessions |-> 0]
    /\ nclears' = nclears + 1
    /\ UNCHANGED <<objs, incidents, turns, returned, searches, creates,
                   uuid_counter, nturns, nadmin>>
    /\ UNCHANGED <<kb_vars, search_vars, pool_vars, admin_vars>>

\* clear_session_data deleting the session's incident from the store as well
clear_session_data_Purge(s) ==
    /\ nclears < MaxClears
    /\ session_data[s] # 0
    /\ session_data' = [session_data EXCEPT ![s] = 0]
    /\ incidents' = SelectSeq(incidents,
                        LAMBDA d : d.incident_id # get_session_incident_id(s))
    /\ nclears' = nclears + 1
    /\ UNCHANGED <<objs, turns, returned, searches, creates,
                   uuid_counter, nturns, nadmin>>
    /\ UNCHANGED <<kb_vars, search_vars, pool_vars, admin_vars>>

\* llm_service.py:514-520 (_conversation_history is never written); the
\* call is counted only when the session is present, absent it changes nothing
clear_session_data(s) ==
    /\ nclears < MaxClears
    /\ session_data[s] # 0
    /\ session_data' = [session_data EXCEPT ![s] = 0]
    /\ nclears' = nclears + 1
    /\ UNCHANGED <<objs, incidents, turns, returned, searches, creates,
                   uuid_counter, nturns, nadmin>>
    /\ UNCHANGED <<kb_vars, search_vars, pool_vars, admin_vars>>

\* get_active_incident of user_routes.py:5 is not among the sources: the
\* incident associated with the session
get_active_incident(s) == get_session_incident_id(s)

\* user_routes.py:120-137: end_session; clear_active_incident and
\* clear_session_history (not among the sources) drop the session's state
end_session(s, get_ok, update_ok) ==
    /\ nclears < MaxClears
    /\ session_data[s] # 0
    /\ LET incident_id == get_active_incident(s)
           i == get_incident(incidents, incident_id, get_ok)
       IN incidents' =
            IF incident_id # NoId /\ i # 0 /\ incidents[i].status # "Resolved"
            THEN update_incident(incidents, incident_id,
                                 [status |-> "Closed"], update_ok)
            ELSE incidents
    /\ session_data' = [session_data EXCEPT ![s] = 0]
    /\ nclears' = nclears + 1
    /\ UNCHANGED <<objs, turns, returned, searches, creates, uuid_counter,
                   nturns, nadmin>>
    /\ UNCHANGED <<kb_vars, search_vars, pool_vars, admin_vars>>

\* ------------------------------------------------------------------ admin
\* the bodies an admin may send (models.py:32-36); "None" is an absent field
IncidentUpdates ==
    { [status |-> "In Progress", kb_reference |-> "None", priority |-> "None",
       admin_message |-> "We are working on it"],
      [status |-> "Closed", kb_reference |-> "None", priority |-> "None",
       admin_message |-> "None"],
      [status |-> "None", kb_reference |-> "KB_7", priority |-> "High",
       admin_message |-> "None"] }

\* Python truth of an optional string
Truthy(x) == x # "None" /\ x # ""

\* admin_routes.py:53-82: update_data
AdminUpdateData(current_incident, incident_update) ==
    LET st == IF Truthy(incident_update.status)
              THEN [status |-> incident_update.status] ELSE [k \in {} |-> ""]
        am == IF Truthy(incident_update.status) /\ Truthy(incident_update.admin_message)
              THEN [admin_messages |->
                      Append(current_incident.admin_messages,
                             [old_status |-> current_incident.status,
                              new_status |-> incident_update.status,
                              message |-> incident_update.admin_message])]
              ELSE [k \in {} |-> ""]
        kb == IF Truthy(incident_update.kb_reference)
              THEN [kb_reference |-> incident_update.kb_reference] ELSE [k \in {} |-> ""]
        pr == IF Truthy(incident_update.priority)
              THEN [priority |-> incident_update.priority] ELSE [k \in {} |-> ""]
    IN st @@ am @@ kb @@ pr

\* admin_routes.py:49-84: the store after get_incident and, when the incident
\* was found, update_incident
AdminUpdateStore(docs, incident_id, incident_update, get_ok, update_ok) ==
    LET i == get_incident(docs, incident_id, get_ok)
    IN IF i # 0
       THEN update_incident(docs, incident_id,
                AdminUpdateData(docs[i], incident_update), update_ok)
       ELSE docs

\* admin_routes.py:44-98: update_incident_status (PUT /incidents/{id});
\* nadmin counts the calls that changed the store
update_incident_status(incident_id, incident_update, get_ok, update_ok) ==
    /\ nadmin < MaxAdminOps
    /\ incidents' = AdminUpdateStore(incidents, incident_id, incident_update,
                                     get_ok, update_ok)
    /\ nadmin' = IF incidents' # incidents THEN nadmin + 1 ELSE nadmin
    /\ UNCHANGED <<session_data, objs, turns, returned, searches, creates,
                   uuid_counter, nturns, nclears>>
    /\ UNCHANGED <<kb_vars, search_vars, pool_vars, admin_vars>>

\* ------------------------------------------------------------ specification
\* Turns of one session id are serialized by the caller (StartTurn); admin
\* updates, clear_session_data and end_session run at any await of a turn.
Next ==
    \/ \E t \in Slots, s \in ChatSessions, q \in Queries : StartTurn(t, s, q)
    \/ \E t \in Slots, failed \in BOOLEAN, content \in Replies :
          ReplyReturn(t, failed, content)
    \/ \E t \in Slots, failed \in BOOLEAN, content \in DetectContents,
          search_results \in SearchOutcomes :
          DetectReturn(t, failed, content, search_results)
    \/ \E t \in Slots, failed \in BOOLEAN : EnhanceReturn(t, failed, EnhancedReply)
    \/ \E t \in Slots, ok \in BOOLEAN : CreateReturn(t, ok)
    \/ \E t \in Slots, failed \in BOOLEAN : StateReturn(t, failed)
    \/ \E t \in Slots, failed \in BOOLEAN, parsed_text \in ParsedTexts :
          ParseReturn(t, failed, parsed_text)
    \/ \E t \in Slots, ok \in BOOLEAN : GetReturn(t, ok)
    \/ \E t \in Slots, ok \in BOOLEAN : UpdateReturn(t, ok)
    \/ \E s \in Sessions : clear_session_data(s)
    \/ \E s \in Sessions, get_ok \in BOOLEAN, update_ok \in BOOLEAN :
          end_session(s, get_ok, update_ok)
    \/ \E id \in 1..uuid_counter, u \in IncidentUpdates,
          get_ok \in BOOLEAN, update_ok \in BOOLEAN :
          update_incident_status(id, u, get_ok, update_ok)

Spec == Init /\ [][Next]_vars

\* ------------------------------------------------------------ properties
\* a call of handle_user_query on session dict o is in flight
InFlight(o) == \E t \in Slots : turns[t].pc # "idle" /\ turns[t].session = o

\* the call in slot t returns in this step
Finishes(t) == turns[t].pc # "idle" /\ turns'[t].pc = "idle"

\* the statuses of the state machine (spec, section 4.4)
Statuses ==
    {"No Incident", "Pending Information", "Pending Admin Review", "Open",
     "In Progress", "Resolved", "Error"}

\* C1: over the serialized turns of one session dict hybrid_search_kb runs at
\* most once, and once kb_searched is true it stays true and kb_chunk keeps
\* its value, whatever the classifier answers.
C1_SearchAtMostOnce ==
    [][\A o \in DOMAIN objs' :
         /\ searches'[o] <= 1
         /\ (o \in DOMAIN objs /\ objs[o].kb_searched)
               => (objs'[o].kb_searched /\ objs'[o].kb_chunk = objs[o].kb_chunk)]_vars

\* C1 witness: a later turn of a session that has searched was classified as
\* a genuine incident and went on without a second search
C1_Witness ==
    \E t \in Slots :
        /\ turns[t].pc = "llm_state"
        /\ turns[t].should_handle_as_incident
        /\ turns[t].start[1].kb_searched
        /\ searches[turns[t].session] = 1
        /\ objs[turns[t].session].kb_chunk # {}

\* C2: over the life of one session dict create_incident is called at most
\* once, and a non-null incident_id never changes.
C2_OneIncidentPerSession ==
    [][\A o \in DOMAIN objs' :
         /\ creates'[o] <= 1
         /\ (o \in DOMAIN objs /\ objs[o].incident_id # NoId)
               => objs'[o].incident_id = objs[o].incident_id]_vars

\* C2 witness: a later turn of a session that has its incident was classified
\* as a genuine incident and created no second one
C2_Witness ==
    \E t \in Slots :
        /\ turns[t].pc = "llm_state"
        /\ turns[t].should_handle_as_incident
        /\ turns[t].start[1].incident_created
        /\ creates[turns[t].session] = 1
        /\ objs[turns[t].session].incident_id # NoId

\* C3, as claimed: in every reachable state, suspended turns included,
\* kb_chunk non-null implies incident_created.
C3_KbChunkImpliesIncident_Always ==
    \A o \in DOMAIN objs : objs[o].kb_chunk # {} => objs[o].incident_created

\* C3, amended: for the dict of a session no turn of which is in flight,
\* kb_chunk non-null implies incident_created.
C3_KbChunkImpliesIncident ==
    \A s \in Sessions :
        (session_data[s] # 0 /\ ~InFlight(session_data[s]))
          => (objs[session_data[s]].kb_chunk # {}
                => objs[session_data[s]].incident_created)

\* C3 witness: a session between turns holds a KB chunk
C3_Witness ==
    \E s \in Sessions :
        /\ session_data[s] # 0
        /\ ~InFlight(session_data[s])
        /\ objs[session_data[s]].kb_chunk # {}

\* C4: in every reachable state, suspended turns included, incident_created
\* implies kb_searched.
C4_IncidentImpliesSearched ==
    \A o \in DOMAIN objs : objs[o].incident_created => objs[o].kb_searched

\* C4 witness: a turn is suspended in create_incident, the flag already set
C4_Witness ==
    \E t \in Slots :
        /\ turns[t].pc = "db_create"
        /\ objs[turns[t].session].incident_created

\* C5: whenever incident_created is true at the end of a turn, the incident
\* store holds an incident with the session's incident_id, also when the
\* insert failed.
C5_CreatedImpliesStored ==
    [][\A t \in Slots :
         (Finishes(t) /\ objs'[turns[t].session].incident_created)
           => \E i \in DOMAIN incidents' :
                 incidents'[i].incident_id = objs'[turns[t].session].incident_id]_vars

\* C6: the status of every session and of every stored incident is one of
\* the enumerated statuses.
C6_StatusEnumerated ==
    /\ \A o \in DOMAIN objs : objs[o].status \in Statuses
    /\ \A i \in DOMAIN incidents : incidents[i].status \in Statuses

\* the top result of the search of the turn in slot t, as kb_chunk keeps it
TopResult(t) ==
    {[kb_id |-> turns[t].search_results[1].kb_id,
      similarity |-> turns[t].search_results[1].similarity]}

\* number of stored incidents with this id
StoredCount(docs, incident_id) ==
    Cardinality({i \in DOMAIN docs : docs[i].incident_id = incident_id})

\* C7: a turn that starts with status No Incident and kb_searched false, is
\* classified as a genuine incident and gets a top result above the threshold
\* ends (on its try branch) with status Pending Information, exactly one
\* incident inserted for the session, kb_searched true and kb_chunk the top
\* result.
C7_NewIncidentKbMatch ==
    [][\A t \in Slots :
         (/\ Finishes(t)
          /\ ~turns[t].failed
          /\ turns[t].start[1].status = "No Incident"
          /\ ~turns[t].start[1].kb_searched
          /\ turns[t].should_handle_as_incident
          /\ turns[t].kb_match_found)
           => LET o == turns[t].session
              IN /\ objs'[o].status = "Pending Information"
                 /\ objs'[o].incident_id # NoId
                 /\ StoredCount(incidents', objs'[o].incident_id) = 1
                 /\ objs'[o].kb_searched
                 /\ objs'[o].kb_chunk = TopResult(t)]_vars

\* C8: a turn that starts with kb_searched false, is classified as a genuine
\* incident and gets no acceptable match (no result, or a top similarity not
\* above the threshold) ends (on its try branch) with an incident inserted
\* with kb_reference "No KB Match", kb_chunk null and status Pending Admin
\* Review.
C8_NewIncidentNoMatch ==
    [][\A t \in Slots :
         (/\ Finishes(t)
          /\ ~turns[t].failed
          /\ ~turns[t].start[1].kb_searched
          /\ turns[t].should_handle_as_incident
          /\ ~turns[t].kb_match_found)
           => LET o == turns[t].session
              IN /\ \E i \in DOMAIN incidents' :
                       /\ incidents'[i].incident_id = objs'[o].incident_id
                       /\ incidents'[i].kb_reference = "No KB Match"
                 /\ objs'[o].kb_chunk = {}
                 /\ objs'[o].status = "Pending Admin Review"]_vars

\* C9: a turn classified as not a genuine incident, on a session without an
\* incident and with status No Incident, creates no incident, runs no KB
\* search and ends (on its try branch) with status No Incident.
C9_NotAnIncident ==
    [][\A t \in Slots :
         (/\ Finishes(t)
          /\ ~turns[t].failed
          /\ ~turns[t].start[1].incident_created
          /\ turns[t].start[1].status = "No Incident"
          /\ ~turns[t].should_handle_as_incident)
           => LET o == turns[t].session
              IN /\ creates'[o] = turns[t].start[1].creates
                 /\ ~objs'[o].incident_created
                 /\ searches'[o] = turns[t].start[1].searches
                 /\ objs'[o].status = "No Incident"]_vars

\* the completion phrase of the information gathering (spec, section 4.4);
\* the sources hold no such phrase
CompletionPhrase == "I have all the information needed"

\* the reply contains the completion phrase, on the texts of Replies,
\* EnhancedReply and error_msg
HasCompletionPhrase(text) == text = "Thanks. I have all the information needed."

\* the statuses that follow the information gathering (spec, section 4.4)
PostCompletion == {"Open", "In Progress", "Pending Admin Review"}

\* C10: the status of a session leaves Pending Information for a
\* post-completion status only in a step of a turn whose AI reply contains
\* the completion phrase.
C10_CompletionPhraseGated ==
    [][\A o \in DOMAIN objs :
         (objs[o].status = "Pending Information" /\ objs'[o].status \in PostCompletion)
           => \E t \in Slots :
                 /\ turns[t].pc # "idle"
                 /\ (turns[t].session = o \/ turns[t].state_session = o)
                 /\ HasCompletionPhrase(turns[t].response_text)]_vars

\* C11: a turn that starts on a session with an incident and status Resolved
\* leaves (on its try branch) the session's status Resolved, does not change
\* a stored status Resolved of the session's incident, and runs no KB search.
C11_ResolvedStays ==
    [][\A t \in Slots :
         (/\ turns[t].pc # "idle"
          /\ turns'[t] # turns[t]
          /\ ~turns'[t].failed
          /\ turns[t].start[1].incident_created
          /\ turns[t].start[1].status = "Resolved")
           => LET o == turns[t].session
              IN /\ objs'[o].status = "Resolved"
                 /\ searches'[o] = searches[o]
                 /\ \A i \in DOMAIN incidents :
                       (/\ incidents[i].incident_id = objs[o].incident_id
                        /\ incidents[i].status = "Resolved")
                         => incidents'[i].status = "Resolved"]_vars

\* the metadata extraction of the turn in slot t reported STATUS Resolved
ReportsResolved(t) ==
    /\ "STATUS" \in DOMAIN turns[t].state_updates
    /\ turns[t].state_updates["STATUS"] = "Resolved"

\* C12, as claimed: a turn of a session with an incident (here: one that is
\* in the store) whose metadata extraction reported STATUS Resolved ends with
\* the session's status Resolved and the stored incident's status Resolved.
C12_ResolvedStored ==
    [][\A t \in Slots :
         (/\ Finishes(t)
          /\ turns[t].start[1].incident_created
          /\ StoredCount(incidents, objs[turns[t].session].incident_id) = 1
          /\ ReportsResolved(t))
           => LET o == turns[t].session
              IN /\ objs'[o].status = "Resolved"
                 /\ \E i \in DOMAIN incidents' :
                       /\ incidents'[i].incident_id = objs'[o].incident_id
                       /\ incidents'[i].status = "Resolved"]_vars

\* C12, amended: such a turn ends with the session's status Resolved; the
\* stored incident's status is Resolved when the turn's update reached the
\* store, and is left as it was when the store's get or update failed.
C12_ResolvedSession ==
    [][\A t \in Slots :
         (/\ Finishes(t)
          /\ turns[t].start[1].incident_created
          /\ ReportsResolved(t))
           => LET o == turns[t].session
              IN /\ objs'[o].status = "Resolved"
                 /\ \A i \in DOMAIN incidents' :
                       incidents'[i].incident_id = objs'[o].incident_id
                         => \/ incidents'[i].status = "Resolved"
                            \/ incidents' = incidents]_vars

\* C12 witness: a turn after the creating one, on a session whose status was
\* not Resolved, had Resolved reported and is writing it to the store
C12_Witness ==
    \E t \in Slots :
        /\ turns[t].pc = "db_update"
        /\ turns[t].start[1].incident_created
        /\ turns[t].start[1].status = "Pending Information"
        /\ ReportsResolved(t)
        /\ turns[t].update_data[1].status = "Resolved"
        /\ \E i \in DOMAIN incidents :
              /\ incidents[i].incident_id = turns[t].incident_id
              /\ incidents[i].status # "Resolved"

ReplyFailed(t) == turns[t].failed /\ turns[t].response_text = ""

\* C14, as claimed: when the reply-generation LLM call fails in a turn of a
\* session that already has an incident (here: one that is in the store), the
\* stored incident's status is Error after the turn.
C14_ErrorStored ==
    [][\A t \in Slots :
         (/\ Finishes(t)
          /\ ReplyFailed(t)
          /\ turns[t].start[1].incident_created
          /\ StoredCount(incidents, objs[turns[t].session].incident_id) = 1)
           => \E i \in DOMAIN incidents' :
                 /\ incidents'[i].incident_id = objs'[turns[t].session].incident_id
                 /\ incidents'[i].status = "Error"]_vars

\* C14, amended: in such a turn the stored incident's status is Error after
\* the turn when the update reached the store; when the store's get or update
\* failed, or no incident with the session's id is stored, the store is left
\* as it was.
C14_ErrorStoredIfReached ==
    [][\A t \in Slots :
         (/\ Finishes(t)
          /\ ReplyFailed(t)
          /\ turns[t].start[1].incident_created)
           => \A i \in DOMAIN incidents' :
                 incidents'[i].incident_id = objs'[turns[t].session].incident_id
                   => \/ incidents'[i].status = "Error"
                      \/ incidents' = incidents]_vars

\* C14 witness: the except branch of a turn whose reply generation failed is
\* writing Error to a stored incident of another status
C14_Witness ==
    \E t \in Slots :
        /\ turns[t].pc = "db_update"
        /\ ReplyFailed(t)
        /\ turns[t].start[1].incident_created
        /\ turns[t].update_data[1].status = "Error"
        /\ \E i \in DOMAIN incidents :
              /\ incidents[i].incident_id = turns[t].incident_id
              /\ incidents[i].status # "Error"

\* the reply-generation LLM call of the turn in slot t fails in this step
\* (the session is still in the map, so the step is not the KeyError of the
\* classifier's lookup)
ReplyFails(t) ==
    /\ turns[t].pc = "llm_reply"
    /\ turns'[t].pc # "llm_detect"
    /\ session_data[turns[t].session_id] # 0

\* C15: when the reply-generation LLM call of a turn fails, the session state
\* (conversation included) is what it was before the turn, the stored
\* incidents are not written, and no metadata-extraction or persistence step
\* follows.
C15_NoPartialMutation ==
    [][\A t \in Slots :
         (\/ ReplyFails(t)
          \/ (ReplyFailed(t) /\ turns'[t] # turns[t]))
           => /\ objs'[turns[t].session] = turns[t].start[1].session
              /\ incidents' = incidents
              /\ turns'[t].pc = "idle"]_vars

\* the call in slot t returns in this step, its update having reached the
\* store (update_incident_in_db found the incident and update_one succeeded)
FinishesStored(t) ==
    /\ Finishes(t)
    /\ turns[t].pc = "db_update"
    /\ incidents' = update_incident(incidents, turns[t].incident_id,
                                    turns[t].update_data[1], TRUE)

\* C16: at the end of every completed turn of a session that has an incident,
\* the store being available, the stored transcript equals the session's
\* conversation and the stored status equals the session's status, on the
\* try branch and on the except branch alike.
C16_StoreMirrorsSession ==
    [][\A t \in Slots :
         (FinishesStored(t) /\ session_data[turns[t].session_id] = turns[t].session)
           => LET o == turns[t].session
              IN \A i \in DOMAIN incidents' :
                    incidents'[i].incident_id = objs'[o].incident_id
                      => /\ incidents'[i].additional_info = objs'[o].conversation
                         /\ incidents'[i].status = objs'[o].status]_vars

\* sequence a is a prefix of sequence b
IsPrefix(a, b) == Len(a) <= Len(b) /\ SubSeq(b, 1, Len(a)) = a

\* C17: every write to the store leaves each incident in place with a
\* transcript that extends the one stored before: no stored message is
\* removed, reordered or altered.
C17_TranscriptAppendOnly ==
    [][/\ Len(incidents) <= Len(incidents')
       /\ \A i \in DOMAIN incidents :
             /\ incidents'[i].incident_id = incidents[i].incident_id
             /\ IsPrefix(incidents[i].additional_info,
                         incidents'[i].additional_info)]_vars

\* C17 witness: a later turn is rewriting a transcript that an earlier update
\* already rewrote, with a longer conversation
C17_Witness ==
    \E t \in Slots, i \in DOMAIN incidents :
        /\ turns[t].pc = "db_update"
        /\ turns[t].start[1].incident_created
        /\ incidents[i].incident_id = turns[t].incident_id
        /\ Len(incidents[i].additional_info) = 2
        /\ Len(turns[t].update_data[1].additional_info) = 4

\* C18: for one session dict kb_searched and incident_created are monotonic:
\* no step, of a successful or of a failed turn, sets either back to false.
C18_FlagsMonotonic ==
    [][\A o \in DOMAIN objs :
         /\ objs[o].kb_searched => objs'[o].kb_searched
         /\ objs[o].incident_created => objs'[o].incident_created]_vars

\* C18 witness: a later turn of a session with both flags set has failed and
\* is on its except branch, the flags still set
C18_Witness ==
    \E t \in Slots :
        /\ turns[t].pc = "db_get"
        /\ turns[t].failed
        /\ turns[t].start[1].kb_searched
        /\ turns[t].start[1].incident_created
        /\ objs[turns[t].session].kb_searched
        /\ objs[turns[t].session].incident_created

\* ------------------------------------------------- two chatting sessions
\* Every session id chats and the turns of different ids interleave at the
\* awaits; the collaborators fail as under Spec but answer from smaller sets,
\* and no admin or end-of-session call runs.
IsoSearchOutcomes ==
    { <<>>, <<[kb_id |-> 2, similarity |-> 74], [kb_id |-> 1, similarity |-> 31]>> }

IsoParsedTexts ==
    { <<>>,
      << <<"STATUS", " Resolved">>, <<"STEP", " 1">>, <<"INFO_GATHERED", " true">>,
         <<"ALL_STEPS_DONE", " true">> >> }

NextIso ==
    \/ \E t \in Slots, s \in Sessions, q \in Queries : StartTurn(t, s, q)
    \/ \E t \in Slots, failed \in BOOLEAN :
          ReplyReturn(t, failed, "What operating system are you using?")
    \/ \E t \in Slots, failed \in BOOLEAN, content \in {"TRUE", "FALSE"},
          search_results \in IsoSearchOutcomes :
          DetectReturn(t, failed, content, search_results)
    \/ \E t \in Slots, failed \in BOOLEAN : EnhanceReturn(t, failed, EnhancedReply)
    \/ \E t \in Slots, ok \in BOOLEAN : CreateReturn(t, ok)
    \/ \E t \in Slots, failed \in BOOLEAN : StateReturn(t, failed)
    \/ \E t \in Slots, failed \in BOOLEAN, parsed_text \in IsoParsedTexts :
          ParseReturn(t, failed, parsed_text)
    \/ \E t \in Slots, ok \in BOOLEAN : GetReturn(t, ok)
    \/ \E t \in Slots, ok \in BOOLEAN : UpdateReturn(t, ok)
    \/ \E s \in Sessions : clear_session_data(s)

SpecIso == Init /\ [][NextIso]_vars

\* the session id of the call that steps in slot t (a call that starts in
\* this step included)
SessionIdOf(t) ==
    IF turns[t].pc = "idle" THEN turns'[t].session_id ELSE turns[t].session_id

\* this step leaves what is stored under every session id other than A as it is
Frame(A) ==
    \A B \in Sessions \ {A} :
        /\ session_data'[B] = session_data[B]
        /\ session_data[B] # 0
             => /\ objs'[session_data[B]] = objs[session_data[B]]
                /\ searches'[session_data[B]] = searches[session_data[B]]
                /\ creates'[session_data[B]] = creates[session_data[B]]

\* this step leaves what is stored under session id A as it is
Untouched(A) ==
    /\ session_data'[A] = session_data[A]
    /\ session_data[A] # 0 => objs'[session_data[A]] = objs[session_data[A]]

\* C19: under any interleaving of operations on different session ids,
\*  - a step of a turn on id A, and clear_session_data on A, leave what is
\*    stored under every other id B unchanged, and leave the calls in flight
\*    and the results of the other ids alone;
\*  - a turn on A returns (on its try branch) the incident id and status of
\*    A's own dict, and writes to the store only the incident of A's dict,
\*    with A's conversation;
\*  - the answers of the status queries on A change only when what is stored
\*    under A changes.
C19_SessionsIsolated ==
    [][/\ \A t \in Slots :
             turns'[t] # turns[t]
               => LET o == IF turns[t].pc = "idle" THEN turns'[t].session
                           ELSE turns[t].session
                  IN /\ Frame(SessionIdOf(t))
                     /\ \A u \in Slots \ {t} :
                           turns'[u] = turns[u] /\ returned'[u] = returned[u]
                     /\ (Finishes(t) /\ Len(returned'[t]) = 4)
                           => /\ returned'[t][2] = objs'[o].incident_id
                              /\ returned'[t][3] = objs'[o].status
                     /\ \A i \in DOMAIN incidents' :
                           (i \notin DOMAIN incidents \/ incidents'[i] # incidents[i])
                             => /\ incidents'[i].incident_id = objs[o].incident_id
                                /\ IsPrefix(incidents'[i].additional_info,
                                            objs[o].conversation)
       /\ \A A \in Sessions :
             (session_data[A] # 0 /\ session_data'[A] = 0)
               => Frame(A) /\ objs' = objs /\ turns' = turns /\ incidents' = incidents
       /\ \A A \in Sessions :
             Untouched(A)
               => /\ get_session_status(A)' = get_session_status(A)
                  /\ get_session_incident_id(A)' = get_session_incident_id(A)]_vars

\* C19 witness: turns of two session ids are in flight at once, on dicts of
\* different status, one of them about to write its incident to the store
C19_Witness ==
    \E t, u \in Slots :
        /\ turns[t].pc = "db_update"
        /\ turns[u].pc # "idle"
        /\ turns[t].session_id # turns[u].session_id
        /\ session_data[turns[t].session_id] = turns[t].session
        /\ session_data[turns[u].session_id] = turns[u].session
        /\ objs[turns[t].session].status # objs[turns[u].session].status
        /\ objs[turns[u].session].incident_id # NoId

\* C20: the kb_reference of a stored incident is never changed after the
\* insert, by chat turns, end of session or admin updates.
C20_KbReferenceFrozen ==
    [][\A i \in DOMAIN incidents :
         incidents'[i].kb_reference = incidents[i].kb_reference]_vars

\* ============================================================ knowledge base
\* A text is the sequence of its lines (content.split('\n')): the empty text
\* is the one empty line.  The collection holds one entry per id "kb_<n>".
\* The file system, the embedding model and the vector store answer
\* nondeterministically, failure included.

\* the longest KB text, in lines
MaxKbLines == 3

KbLines == {"", "  ", "[KB_ID: 0]", "[KB_ID: 1]", "[KB_ID: 2]",
            "Issue: WiFi drops", "Fix: restart Outlook"}

KbTexts == UNION {[1..n -> KbLines] : n \in 1..MaxKbLines}

\* the replacement contents an admin sends (POST /knowledge_base)
KbUpdates ==
    { <<"">>,
      <<"[KB_ID: 1]", "Fix: restart Outlook">>,
      <<"Issue: WiFi drops", "  ", "Fix: restart Outlook">>,
      <<"Issue: WiFi drops", "Fix: restart Outlook", "Issue: WiFi drops">>,
      <<"[KB_ID: 1]", "Issue: WiFi drops", "Fix: restart Outlook">>,
      <<"[KB_ID: 2]", "Fix: restart Outlook", "Issue: WiFi drops">>,
      <<"[KB_ID: 1]", "Fix: restart Outlook", "[KB_ID: 1]">>,
      <<"[KB_ID: 0]", "Issue: WiFi drops", "Fix: restart Outlook">>,
      <<"[KB_ID: new]", "Issue: WiFi drops", "Fix: restart Outlook">> }

\* str.strip() of one line
StripLine(line) == IF line = "  " THEN "" ELSE line

\* '[KB_ID:' in line; "[KB_ID: new]" is a marker without an integer
HasKbIdPrefix(line) ==
    line \in {"[KB_ID: 0]", "[KB_ID: 1]", "[KB_ID: 2]", "[KB_ID: new]"}

\* re.search(r'\[KB_ID:\s*(\d+)\]', line): the group as an integer, in a
\* sequence that is empty when the line does not match
KbIdMatch(line) ==
    CASE line = "[KB_ID: 0]" -> <<0>>
      [] line = "[KB_ID: 1]" -> <<1>>
      [] line = "[KB_ID: 2]" -> <<2>>
      [] OTHER -> <<>>

\* text.strip() == '' : nothing but white space
IsBlankText(text) == \A i \in DOMAIN text : StripLine(text[i]) = ""

\* kb_service.py:67-68: the non-empty lines of the stripped content
NonEmptyLines(text) == {i \in DOMAIN text : StripLine(text[i]) # ""}

\* a validation that accepts every content
validate_kb_content_Any(kb_content) == TRUE

\* kb_service.py:57-86
validate_kb_content(kb_content) ==
    /\ ~IsBlankText(kb_content)
    /\ Cardinality(NonEmptyLines(kb_content)) >= 3
    /\ \E i \in DOMAIN kb_content : HasKbIdPrefix(kb_content[i])

\* chromadb.py:40-42: the locals of parse_knowledge_base before the loop;
\* kb_id is a sequence, empty for None
ParseStart == [chunks |-> <<>>, current_chunk |-> <<>>, kb_id |-> <<>>]

\* chromadb.py:52-58 and 68-74: the chunk in progress is kept when
\* `current_chunk and kb_id` is true and its text is not blank
SaveChunk(st) ==
    IF /\ st.current_chunk # <<>>
       /\ st.kb_id # <<>> /\ st.kb_id[1] # 0
       /\ ~IsBlankText(st.current_chunk)
    THEN Append(st.chunks, [kb_id |-> st.kb_id[1], content |-> st.current_chunk])
    ELSE st.chunks

\* chromadb.py:46-65: the loop over the lines
RECURSIVE ParseLoop(_, _)
ParseLoop(lines, st) ==
    IF lines = <<>> THEN st
    ELSE LET line == Head(lines)
             kb_id_match == KbIdMatch(line)
         IN ParseLoop(Tail(lines),
                IF kb_id_match # <<>>
                THEN [chunks |-> SaveChunk(st), current_chunk |-> <<line>>,
                      kb_id |-> kb_id_match]
                ELSE IF st.kb_id # <<>>
                     THEN [st EXCEPT !.current_chunk = Append(@, line)]
                     ELSE st)

\* chromadb.py:34-80; not read_ok is the except branch (the file cannot be read)
parse_knowledge_base(file, read_ok) ==
    IF read_ok THEN SaveChunk(ParseLoop(file, ParseStart)) ELSE <<>>

\* chromadb.py:109-119: the batch, one entry per chunk
Batch(chunks) == {chunks[i] : i \in DOMAIN chunks}

\* the ids of a batch are unique (collection.add raises on duplicates)
UniqueIds(chunks) ==
    \A i, j \in DOMAIN chunks : chunks[i].kb_id = chunks[j].kb_id => i = j

\* chromadb.py:122-127: collection.add; an id the collection already holds
\* keeps its stored entry
CollectionAdd(store, chunks) ==
    store \cup {e \in Batch(chunks) : \A o \in store : o.kb_id # e.kb_id}

\* chromadb.py:82-133: load_and_vectorize_kb on a store and a file.
\* delete_ok: collection.get and delete succeed (lines 88-95, failure caught);
\* add_ok: the embedding and collection.add succeed apart from duplicate ids;
\* on_existing: what the store does with an id it already holds.
LoadAndVectorize(store, file, delete_ok, read_ok, add_ok, on_existing) ==
    LET cleared == IF delete_ok THEN {} ELSE store
        chunks == parse_knowledge_base(file, read_ok)
        clash == \E e \in Batch(chunks), o \in cleared : o.kb_id = e.kb_id
    IN IF chunks = <<>>
       THEN [collection |-> cleared, chunks |-> chunks, result |-> "returned"]
       ELSE IF ~add_ok \/ ~UniqueIds(chunks) \/ (clash /\ on_existing = "raise")
            THEN [collection |-> cleared, chunks |-> chunks, result |-> "raised"]
            ELSE [collection |-> CollectionAdd(cleared, chunks),
                  chunks |-> chunks, result |-> "returned"]

\* test.py:14: parse_knowledge_base called on the file
TestParse(read_ok) ==
    /\ kb_run' = [NoRun EXCEPT !.op = "parse", !.parsed = TRUE,
                     !.read_ok = read_ok,
                     !.chunks = parse_knowledge_base(kb_file, read_ok),
                     !.result = "returned"]
    /\ UNCHANGED <<kb_file, collection>>
    /\ UNCHANGED <<engine_vars, search_vars, pool_vars, admin_vars>>

\* main.py:38 and test.py:24: load_and_vectorize_kb
load_and_vectorize_kb(delete_ok, read_ok, add_ok, on_existing) ==
    /\ LET run == LoadAndVectorize(collection, kb_file, delete_ok, read_ok,
                                   add_ok, on_existing)
       IN /\ collection' = run.collection
          /\ kb_run' = [NoRun EXCEPT !.op = "load", !.parsed = TRUE,
                           !.read_ok = read_ok,
                           !.delete_ok = delete_ok, !.add_ok = add_ok,
                           !.chunks = run.chunks, !.result = run.result]
    /\ UNCHANGED kb_file
    /\ UNCHANGED <<engine_vars, search_vars, pool_vars, admin_vars>>

\* kb_service.py:10-37: update_knowledge_base_file; not write_ok: the file
\* cannot be opened for writing
update_knowledge_base_file(new_kb_content, write_ok, delete_ok, read_ok, add_ok, on_existing) ==
    LET run == LoadAndVectorize(collection, new_kb_content, delete_ok, read_ok,
                                add_ok, on_existing)
        call == [NoRun EXCEPT !.op = "update", !.content = new_kb_content]
    IN /\ IF ~validate_kb_content(new_kb_content)
          THEN /\ kb_run' = [call EXCEPT !.valid = FALSE, !.result = "False"]
               /\ UNCHANGED <<kb_file, collection>>
          ELSE IF ~write_ok
          THEN /\ kb_run' = [call EXCEPT !.result = "False"]
               /\ UNCHANGED <<kb_file, collection>>
          ELSE /\ kb_file' = new_kb_content
               /\ collection' = run.collection
               /\ kb_run' = [call EXCEPT !.parsed = TRUE,
                               !.read_ok = read_ok, !.delete_ok = delete_ok,
                               !.add_ok = add_ok, !.chunks = run.chunks,
                               !.result = IF run.result = "raised"
                                          THEN "False" ELSE "True"]
       /\ UNCHANGED <<engine_vars, search_vars, pool_vars, admin_vars>>

\* chromadb.py:219-228: clear_knowledge_base (test.py:10)
clear_knowledge_base(ok) ==
    /\ collection' = IF ok THEN {} ELSE collection
    /\ kb_run' = [NoRun EXCEPT !.op = "clear",
                     !.result = IF ok THEN "True" ELSE "False"]
    /\ UNCHANGED kb_file
    /\ UNCHANGED <<engine_vars, search_vars, pool_vars, admin_vars>>

\* the deployed KB file is any text; the collection does not exist yet
InitKB ==
    /\ EngineInit /\ SearchIdle /\ PoolIdle /\ AdminIdle
    /\ kb_file \in KbTexts
    /\ collection = {}
    /\ kb_run = NoRun

NextKB ==
    \/ \E read_ok \in BOOLEAN : TestParse(read_ok)
    \/ \E delete_ok \in BOOLEAN, read_ok \in BOOLEAN, add_ok \in BOOLEAN,
          on_existing \in {"ignore", "raise"} :
          load_and_vectorize_kb(delete_ok, read_ok, add_ok, on_existing)
    \/ \E new_kb_content \in KbUpdates, write_ok \in BOOLEAN,
          delete_ok \in BOOLEAN, read_ok \in BOOLEAN, add_ok \in BOOLEAN,
          on_existing \in {"ignore", "raise"} :
          update_knowledge_base_file(new_kb_content, write_ok, delete_ok,
                                     read_ok, add_ok, on_existing)
    \/ \E ok \in BOOLEAN : clear_knowledge_base(ok)

SpecKB == InitKB /\ [][NextKB]_vars

\* ------------------------------------------------- knowledge base: properties
\* the step is an ingestion run: load_and_vectorize_kb was entered
IngestionRan == kb_run'.parsed /\ kb_run'.op \in {"load", "update"}

\* C21: an ingestion run whose source is empty, unreadable or parses to no
\* entry leaves the entries of the KB store exactly as they were.
C21_EmptyIngestionKeepsStore ==
    [][(IngestionRan /\ kb_run'.chunks = <<>>) => collection' = collection]_vars

\* C22: an ingestion run of a text that parses to at least one entry, whether
\* it returns or raises, leaves the KB store with exactly its previous
\* entries or exactly the entries parsed from the new text.
C22_ReplacementAtomic ==
    [][(IngestionRan /\ kb_run'.read_ok /\ kb_run'.chunks # <<>>)
          => \/ collection' = collection
             \/ collection' = Batch(kb_run'.chunks)]_vars

\* the content fails validation in the words of the claim: empty, fewer than
\* three non-empty lines, or no '[KB_ID:' marker
FailsValidation(text) ==
    \/ text = <<"">>
    \/ Cardinality({i \in DOMAIN text : StripLine(text[i]) # ""}) < 3
    \/ \A i \in DOMAIN text : ~HasKbIdPrefix(text[i])

\* C23: update_knowledge_base_file with a content that fails validation
\* returns False and leaves the KB file and the KB store unchanged.
C23_InvalidUpdateRejected ==
    [][(kb_run'.op = "update" /\ FailsValidation(kb_run'.content))
          => /\ kb_run'.result = "False"
             /\ kb_file' = kb_file
             /\ collection' = collection]_vars

\* an update was rejected by the validation while the store held entries and
\* the file held another text
C23_Witness ==
    /\ kb_run.op = "update" /\ ~kb_run.valid /\ kb_run.result = "False"
    /\ FailsValidation(kb_run.content)
    /\ collection # {}
    /\ kb_file # kb_run.content

\* the lines of a text that hold a marker [KB_ID: <integer>]
MarkerLines(text) == {i \in DOMAIN text : KbIdMatch(text[i]) # <<>>}

\* the j-th marker line of a text
NthMarker(text, j) ==
    CHOOSE i \in MarkerLines(text) :
        Cardinality({x \in MarkerLines(text) : x <= i}) = j

\* one entry per marker line, in file order: the marker's integer and the
\* lines from the marker up to the next marker
EntryPerMarker(text) ==
    [j \in 1..Cardinality(MarkerLines(text)) |->
        LET first == NthMarker(text, j)
            last == IF j < Cardinality(MarkerLines(text))
                    THEN NthMarker(text, j + 1) - 1 ELSE Len(text)
        IN [kb_id |-> KbIdMatch(text[first])[1],
            content |-> SubSeq(text, first, last)]]

\* C24: parse_knowledge_base returns exactly one entry per marker line, in
\* file order, for every integer id, 0 included; lines before the first
\* marker belong to no entry.
C24_OneEntryPerMarker ==
    (kb_run.parsed /\ kb_run.read_ok) => kb_run.chunks = EntryPerMarker(kb_file)

\* ============================================================ hybrid search
\* A query is the sequence of its terms (query.split()).  Distances are in
\* hundredths.  Scores are exact multiples of 1/ScoreUnit, the combined score
\* of 1/(10 * ScoreUnit): semantic_weight and keyword_weight are in tenths.
\* distances is what collection.query sees: the stored entries by ascending
\* distance from the query, in the order the vector index reports them.

\* the longest query, in terms
MaxQueryTerms == 3
\* the largest n_results
MaxResults == 2

ScoreUnit == 600
\* chromadb.py:140-141: 0.7 and 0.3
semantic_weight == 7
keyword_weight == 3

SearchTerms == {"Outlook", "wifi", "vpn", "pc"}
SearchQueries == UNION {[1..n -> SearchTerms] : n \in 0..MaxQueryTerms}
Distances == {0, 80, 200, 250}

\* the entries a store holds under SpecSearch
SearchEntries ==
    { [kb_id |-> 1, content |-> <<"[KB_ID: 1]", "Fix: restart Outlook">>],
      [kb_id |-> 2, content |-> <<"[KB_ID: 2]", "Issue: WiFi drops">>],
      [kb_id |-> 3, content |-> <<"[KB_ID: 3]", "Issue: WiFi drops",
                                  "Fix: restart Outlook">>] }

\* term.lower()
LowerTerm(term) == IF term = "Outlook" THEN "outlook" ELSE term

\* the lower-case terms that are substrings of line.lower()
TermsIn(line) ==
    CASE line = "Fix: restart Outlook" -> {"outlook"}
      [] line = "Issue: WiFi drops" -> {"wifi"}
      [] OTHER -> {}

\* term in doc_lower: a term holds no line break, so it lies within one line
TermInDoc(term, document) == \E i \in DOMAIN document : term \in TermsIn(document[i])

\* chromadb.py:193: query_terms, the positions of the terms longer than 2
QueryTerms(query) == {i \in DOMAIN query : Len(query[i]) > 2}

\* chromadb.py:191-200, as a multiple of 1/ScoreUnit
simple_keyword_match(query, document) ==
    LET query_terms == QueryTerms(query)
        matches == Cardinality({i \in query_terms :
                                   TermInDoc(LowerTerm(query[i]), document)})
    IN IF query_terms = {} THEN 0
       ELSE (matches * ScoreUnit) \div Cardinality(query_terms)

\* the semantic score without the test distance <= 2
SemanticScore_NoClamp(distance) == ScoreUnit - (distance * ScoreUnit) \div 200

\* chromadb.py:162, as a multiple of 1/ScoreUnit
SemanticScore(distance) ==
    IF distance <= 200 THEN ScoreUnit - (distance * ScoreUnit) \div 200 ELSE 0

\* chromadb.py:168-169
HybridScore(semantic_score, keyword_score) ==
    semantic_weight * semantic_score + keyword_weight * keyword_score

Min(a, b) == IF a <= b THEN a ELSE b

\* chromadb.py:148-152: collection.query, the n_results nearest entries
CollectionQuery(ranking, n) == SubSeq(ranking, 1, Min(n, Len(ranking)))

\* the document stored under an id
DocumentOf(store, kb_id) == (CHOOSE e \in store : e.kb_id = kb_id).content

\* chromadb.py:157-178: the scored candidates, in the order of the query result
HybridResults(store, candidates, query) ==
    [i \in DOMAIN candidates |->
        LET doc == DocumentOf(store, candidates[i].kb_id)
            semantic_score == SemanticScore(candidates[i].distance)
            keyword_score == simple_keyword_match(query, doc)
        IN [kb_id |-> candidates[i].kb_id,
            content |-> doc,
            similarity |-> HybridScore(semantic_score, keyword_score),
            semantic_score |-> semantic_score,
            keyword_score |-> keyword_score,
            distance |-> candidates[i].distance]]

\* insertion before the elements of equal similarity
InsertDesc_BeforeEqual(sorted, x) ==
    LET before == {i \in DOMAIN sorted : sorted[i].similarity > x.similarity}
        k == Cardinality(before)
    IN SubSeq(sorted, 1, k) \o <<x>> \o SubSeq(sorted, k + 1, Len(sorted))

\* x put after the elements of greater or equal similarity of a sorted list
InsertDesc(sorted, x) ==
    LET before == {i \in DOMAIN sorted : sorted[i].similarity >= x.similarity}
        k == Cardinality(before)
    IN SubSeq(sorted, 1, k) \o <<x>> \o SubSeq(sorted, k + 1, Len(sorted))

\* chromadb.py:181: list.sort(key=similarity, reverse=True), a stable sort
RECURSIVE SortBySimilarity(_)
SortBySimilarity(results) ==
    IF results = <<>> THEN <<>>
    ELSE InsertDesc(SortBySimilarity(SubSeq(results, 1, Len(results) - 1)),
                    results[Len(results)])

\* chromadb.py:135-189: hybrid_search_kb on the pending query; failed is the
\* except branch (the embedding or the vector store raises)
hybrid_search_kb(failed) ==
    /\ LET candidates == CollectionQuery(distances, search.n_results * 2)
           hybrid_results == HybridResults(collection, candidates, search.query)
           sorted == SortBySimilarity(hybrid_results)
       IN search' =
            IF failed
            THEN [search EXCEPT !.called = TRUE, !.failed = TRUE,
                                !.hybrid_results = <<>>, !.results = <<>>]
            ELSE [search EXCEPT !.called = TRUE, !.failed = FALSE,
                                !.hybrid_results = hybrid_results,
                                !.results = CollectionQuery(sorted, search.n_results)]
    /\ UNCHANGED distances
    /\ UNCHANGED <<engine_vars, kb_vars, pool_vars, admin_vars>>

\* the orders in which the vector index may report the entries of a store:
\* every entry once, by ascending distance
Rankings(store) ==
    {r \in [1..Cardinality(store) -> [kb_id : {e.kb_id : e \in store},
                                       distance : Distances]] :
        /\ \A i, j \in DOMAIN r : r[i].kb_id = r[j].kb_id => i = j
        /\ \A i, j \in DOMAIN r : i < j => r[i].distance <= r[j].distance}

\* a store, the distances of its entries from a query, and the call to make
InitSearch ==
    /\ EngineInit /\ PoolIdle /\ AdminIdle
    /\ kb_file = <<"">>
    /\ kb_run = NoRun
    /\ collection \in SUBSET SearchEntries
    /\ distances \in Rankings(collection)
    /\ search \in {[NoSearch EXCEPT !.query = q, !.n_results = n] :
                      q \in SearchQueries, n \in 1..MaxResults}

NextSearch == \E failed \in BOOLEAN : hybrid_search_kb(failed)

SpecSearch == InitSearch /\ [][NextSearch]_vars

\* ------------------------------------------------- hybrid search: properties
\* the place of candidate i when the candidates are ordered by combined score,
\* highest first, candidates of equal score in the order of the query result
Rank(hybrid_results, i) ==
    1 + Cardinality({j \in DOMAIN hybrid_results :
            \/ hybrid_results[j].similarity > hybrid_results[i].similarity
            \/ /\ hybrid_results[j].similarity = hybrid_results[i].similarity
               /\ j < i})

\* C25: a search that does not fail returns the first N of the up-to-2N
\* nearest candidates ordered by 0.7*semantic + 0.3*keyword, highest first,
\* candidates of equal combined score in their vector-distance order; the
\* result is determined by the store, the query and N.
C25_TopNStableOrder ==
    (search.called /\ ~search.failed) =>
        LET n == search.n_results
            nearest == SubSeq(distances, 1, Min(2 * n, Len(distances)))
            hr == search.hybrid_results
        IN /\ Len(hr) = Len(nearest)
           /\ \A i \in DOMAIN hr :
                /\ hr[i].kb_id = nearest[i].kb_id
                /\ hr[i].distance = nearest[i].distance
                /\ hr[i].similarity =
                      7 * hr[i].semantic_score + 3 * hr[i].keyword_score
           /\ Len(search.results) = Min(n, Len(hr))
           /\ \A i \in DOMAIN hr :
                Rank(hr, i) <= n => search.results[Rank(hr, i)] = hr[i]

\* a search over a store of more than 2N entries whose first two candidates
\* have the same combined score, cut to one result
C25_Witness ==
    /\ search.called /\ ~search.failed
    /\ Len(distances) > 2 * search.n_results
    /\ Len(search.hybrid_results) > Len(search.results)
    /\ search.hybrid_results[1].similarity = search.hybrid_results[2].similarity
    /\ search.hybrid_results[1].similarity > 0
    /\ search.results = <<search.hybrid_results[1]>>

\* the distinct lower-case query terms longer than 2
DistinctTerms(query) == {LowerTerm(query[k]) : k \in QueryTerms(query)}

\* C26: the keyword score equals the number of distinct query terms of
\* length > 2 present in the document, divided by the number of such query
\* terms (repeated terms counted in the divisor or not), and 0 when the query
\* has no such term.
C26_KeywordScoreDistinctTerms ==
    (search.called /\ ~search.failed) =>
        \A i \in DOMAIN search.hybrid_results :
            LET c == search.hybrid_results[i]
                present == Cardinality({term \in DistinctTerms(search.query) :
                                           TermInDoc(term, c.content)})
                total == Cardinality(QueryTerms(search.query))
                distinct == Cardinality(DistinctTerms(search.query))
            IN IF total = 0 THEN c.keyword_score = 0
               ELSE \/ c.keyword_score * total = present * ScoreUnit
                    \/ c.keyword_score * distinct = present * ScoreUnit

\* C27: for every candidate of non-negative distance the semantic score, the
\* keyword score and the combined score lie in [0, 1].
C27_ScoresInUnitInterval ==
    \A i \in DOMAIN search.hybrid_results :
        LET c == search.hybrid_results[i]
        IN c.distance >= 0 =>
            /\ 0 <= c.semantic_score /\ c.semantic_score <= ScoreUnit
            /\ 0 <= c.keyword_score /\ c.keyword_score <= ScoreUnit
            /\ 0 <= c.similarity /\ c.similarity <= 10 * ScoreUnit

\* a search that scored a candidate farther than 2 and a candidate at
\* distance 0 that holds every query term
C27_Witness ==
    /\ search.called /\ ~search.failed
    /\ \E i \in DOMAIN search.hybrid_results :
          /\ search.hybrid_results[i].distance > 200
          /\ search.hybrid_results[i].semantic_score = 0
    /\ \E i \in DOMAIN search.hybrid_results :
          search.hybrid_results[i].similarity = 10 * ScoreUnit

\* ================================================================= executor
\* Every LLM call of a turn is submitted to the one ThreadPoolExecutor
\* (llm_service.py:19, 146, 285, 339, 399, 459) and awaited without a time
\* limit; the store calls are awaited on the event loop (motor), without a
\* time limit either.  A submitted call waits until a worker is free; the
\* worker is held until llm.invoke returns.  An external call either answers
\* (a failure is an answer) or never does; no step of the code ends a call
\* that never answers.

\* llm_service.py:19
max_workers == 5
\* the LLM calls of a turn that are followed
MaxLlmCalls == 2

\* one session more than there are workers
PoolSessions == 1..(max_workers + 1)

\* no turn of the session was started
PoolTurnIdle == [st |-> "idle", call |-> 0]

\* the workers in use: calls that run, answering or not
BusyWorkers == {s \in PoolSessions : pool[s].st \in {"running", "hung_llm"}}

\* llm_service.py:31-152: a turn starts and submits its first LLM call; the
\* sessions are alike and start their turns in the order of their numbers
SubmitTurn(s) ==
    /\ pool[s].st = "idle"
    /\ \A u \in PoolSessions : u < s => pool[u].st # "idle"
    /\ pool' = [pool EXCEPT ![s] = [st |-> "queued", call |-> 1]]
    /\ UNCHANGED <<engine_vars, kb_vars, search_vars, admin_vars>>

\* ThreadPoolExecutor: a free worker takes the submitted call and runs
\* llm.invoke, which will answer or not
Dispatch(s, answers) ==
    /\ pool[s].st = "queued"
    /\ Cardinality(BusyWorkers) < max_workers
    /\ pool' = [pool EXCEPT ![s] =
                  IF answers THEN [st |-> "running", call |-> pool[s].call]
                  ELSE [st |-> "hung_llm", call |-> 0]]
    /\ UNCHANGED <<engine_vars, kb_vars, search_vars, admin_vars>>

\* the call answers and the coroutine resumes: it submits its next LLM call,
\* or awaits the store (lines 202, 219, 239, 482-502), which will answer or
\* not, or returns (220-222, 241)
LlmReturn(s, next) ==
    /\ pool[s].st = "running"
    /\ next = "queued" => pool[s].call < MaxLlmCalls
    /\ pool' = [pool EXCEPT ![s] =
                  IF next = "queued"
                  THEN [st |-> "queued", call |-> pool[s].call + 1]
                  ELSE [st |-> next, call |-> 0]]
    /\ UNCHANGED <<engine_vars, kb_vars, search_vars, admin_vars>>

\* the store answers and the turn returns
StoreReturn(s) ==
    /\ pool[s].st = "store"
    /\ pool' = [pool EXCEPT ![s].st = "done"]
    /\ UNCHANGED <<engine_vars, kb_vars, search_vars, admin_vars>>

\* what a coroutine does when its LLM call answered
AfterLlm == {"queued", "store", "hung_store", "done"}

InitPool ==
    /\ EngineInit /\ KbIdle /\ SearchIdle /\ AdminIdle
    /\ pool = [s \in PoolSessions |-> PoolTurnIdle]

NextPool ==
    \/ \E s \in PoolSessions : SubmitTurn(s)
    \/ \E s \in PoolSessions, answers \in BOOLEAN : Dispatch(s, answers)
    \/ \E s \in PoolSessions, next \in AfterLlm : LlmReturn(s, next)
    \/ \E s \in PoolSessions : StoreReturn(s)

\* a step of the executor or of a coroutine whose call answered
PoolProgress ==
    \E s \in PoolSessions :
        \/ \E answers \in BOOLEAN : Dispatch(s, answers)
        \/ \E next \in AfterLlm : LlmReturn(s, next)
        \/ StoreReturn(s)

\* The executor hands a submitted call to a worker when one is free; a call
\* that answers returns, and the event loop resumes the coroutine that awaits
\* it.  Nothing is assumed of the users (SubmitTurn) or of a call that never
\* answers.  Every session has one turn of finitely many steps, so a
\* behavior ends in a state it never leaves, and weak fairness of
\* PoolProgress says that no such step is possible in that state.
PoolFairness == WF_vars(PoolProgress)

SpecPool == InitPool /\ [][NextPool]_vars /\ PoolFairness

\* ------------------------------------------------------ executor: properties
\* C28: every turn eventually completes, also when an external LLM or store
\* call never answers.
C28_TurnsComplete ==
    \A s \in PoolSessions : (pool[s].st # "idle") ~> (pool[s].st = "done")

\* C29: a turn can always run to completion whatever the turns of the other
\* sessions do: a call that waits for a worker can still get one, the workers
\* are never all held by calls of other sessions that never answer.
C29_IndependentProgress ==
    \A s \in PoolSessions :
        pool[s].st = "queued" =>
            Cardinality({u \in PoolSessions \ {s} : pool[u].st = "hung_llm"})
                < max_workers

\* ==================================================== admin: the responses
\* admin_response is the answer of the last admin request: the HTTP status
\* code, the count a listing reports, the place in the store of the incident
\* an answer carries (0 for None), and whether a store call of the request
\* failed (history).

\* the most incidents in the store under SpecAdmin
MaxStored == 2

\* the search results of the chat turns that inserted the incidents
StoredSearches == {<<>>, <<[kb_id |-> 1, similarity |-> 31]>>}

\* the document a chat turn inserted for the query (llm_service.py:164-202)
StoredIncident(incident_id, search_results) ==
    LET session == [NewSession EXCEPT
                       !.conversation = <<Message("User", "outlook not opening")>>]
    IN IncidentData(IF KbMatchFound(search_results)
                    THEN WithKbMatch(session, search_results)
                    ELSE WithoutKbMatch(session),
                    incident_id, "outlook not opening")

\* the stores of up to MaxStored incidents
AdminStores ==
    UNION {{[i \in 1..n |-> StoredIncident(i, sr[i])] : sr \in [1..n -> StoredSearches]}
              : n \in 0..MaxStored}

\* mongodb.py:62-72: get_all_incidents, newest first; not ok is its except
\* branch, which returns []
get_all_incidents(docs, ok) ==
    IF ok THEN [i \in 1..Len(docs) |-> docs[Len(docs) + 1 - i]] ELSE <<>>

\* admin_routes.py:13-25: GET /incidents
get_incidents(store_ok) ==
    /\ admin_response' =
          [NoResponse EXCEPT !.op = "list", !.store_failed = ~store_ok,
                             !.code = 200,
                             !.count = Len(get_all_incidents(incidents, store_ok))]
    /\ UNCHANGED <<engine_vars, kb_vars, search_vars, pool_vars>>

\* admin_routes.py:27-42: GET /incidents/{incident_id}
get_incident_details(incident_id, store_ok) ==
    /\ LET incident == get_incident(incidents, incident_id, store_ok)
       IN admin_response' =
            [NoResponse EXCEPT !.op = "get", !.store_failed = ~store_ok,
                               !.code = IF incident = 0 THEN 404 ELSE 200,
                               !.incident = incident]
    /\ UNCHANGED <<engine_vars, kb_vars, search_vars, pool_vars>>

\* admin_routes.py:131-154: GET /stats
get_admin_stats(store_ok) ==
    /\ admin_response' =
          [NoResponse EXCEPT !.op = "stats", !.store_failed = ~store_ok,
                             !.code = 200,
                             !.count = Len(get_all_incidents(incidents, store_ok))]
    /\ UNCHANGED <<engine_vars, kb_vars, search_vars, pool_vars>>

\* admin_routes.py:44-98: the answer of PUT /incidents/{incident_id}; 404 when
\* get_incident gave None (line 50) or update_incident gave False (line 85);
\* reread_ok is the get_incident of line 88
UpdateStatusResponse(docs, incident_id, get_ok, update_ok, reread_ok) ==
    LET i == get_incident(docs, incident_id, get_ok)
    IN IF i = 0
       THEN [NoResponse EXCEPT !.op = "update", !.store_failed = ~get_ok,
                               !.code = 404]
       ELSE IF ~update_ok
       THEN [NoResponse EXCEPT !.op = "update", !.store_failed = TRUE,
                               !.code = 404]
       ELSE [NoResponse EXCEPT !.op = "update", !.store_failed = ~reread_ok,
                               !.code = 200,
                               !.incident = get_incident(docs, incident_id, reread_ok)]

\* admin_routes.py:44-98: update_incident_status with its answer
AnswerUpdateStatus(incident_id, incident_update, get_ok, update_ok, reread_ok) ==
    /\ nadmin < MaxAdminOps
    /\ incidents' = AdminUpdateStore(incidents, incident_id, incident_update,
                                     get_ok, update_ok)
    /\ nadmin' = IF incidents' # incidents THEN nadmin + 1 ELSE nadmin
    /\ admin_response' = UpdateStatusResponse(incidents, incident_id, get_ok,
                                              update_ok, reread_ok)
    /\ UNCHANGED <<session_data, objs, turns, returned, searches, creates,
                   uuid_counter, nturns, nclears>>
    /\ UNCHANGED <<kb_vars, search_vars, pool_vars>>

\* the server was started on a store that holds the incidents of earlier
\* chats: no session is in memory
InitAdmin ==
    /\ session_data = [s \in Sessions |-> 0]
    /\ objs = <<>>
    /\ incidents \in AdminStores
    /\ turns = [t \in Slots |-> IdleTurn]
    /\ returned = [t \in Slots |-> <<>>]
    /\ searches = <<>>
    /\ creates = <<>>
    /\ uuid_counter = Len(incidents)
    /\ nturns = 0
    /\ nclears = 0
    /\ nadmin = 0
    /\ KbIdle /\ SearchIdle /\ PoolIdle /\ AdminIdle

NextAdmin ==
    \/ \E store_ok \in BOOLEAN : get_incidents(store_ok)
    \/ \E id \in 1..(MaxStored + 1), store_ok \in BOOLEAN :
          get_incident_details(id, store_ok)
    \/ \E store_ok \in BOOLEAN : get_admin_stats(store_ok)
    \/ \E id \in 1..(MaxStored + 1), u \in IncidentUpdates,
          get_ok \in BOOLEAN, update_ok \in BOOLEAN, reread_ok \in BOOLEAN :
          AnswerUpdateStatus(id, u, get_ok, update_ok, reread_ok)

SpecAdmin == InitAdmin /\ [][NextAdmin]_vars

\* ---------------------------------------------------------- admin: properties
\* C30: when a store call of an admin request fails, the endpoint answers
\* with an explicit error (status 500): not with a success, not with 'not
\* found' (404).
C30_StoreFailureIsError ==
    (admin_response.store_failed /\ incidents # <<>>) => admin_response.code = 500

\* --------------------------------------------- the engine: calls of a turn
\* C31: a turn issues at most two LLM calls, at most one vector query of the
\* KB store and at most one call (read or write) of the incident store, on
\* every path, the turn that creates the incident included.
C31_CallsPerTurn ==
    \A t \in Slots :
        /\ turns[t].llm_calls <= 2
        /\ turns[t].kb_queries <= 1
        /\ turns[t].store_calls <= 1

\* ---------------------------------- the engine: the classifier's fallback
\* this step is the return of the classification of the turn in slot t
\* through the except branch of _llm_detect_it_incident (the call failed)
DetectFails(t) ==
    \E content \in DetectContents, search_results \in SearchOutcomes :
        DetectReturn(t, TRUE, content, search_results)

\* this step is the return of the enhancement call of the turn in slot t
EnhanceReturns(t) == turns[t].pc = "llm_enhance" /\ turns'[t] # turns[t]

\* C32: when the classification LLM call of a turn fails on a session with
\* kb_searched false, the KB search runs, and create_incident is called in
\* that turn: at once when the search found no acceptable match, after the
\* enhancement call otherwise.  When it fails on a session with kb_searched
\* true, no search runs and no incident is created (the turn goes on to the
\* state update, or to its except branch).
C32_DetectFailureDefault ==
    [][\A t \in Slots :
         LET o == turns[t].session
         IN /\ (DetectFails(t) /\ ~objs[o].kb_searched)
                 => /\ searches'[o] = searches[o] + 1
                    /\ \/ creates'[o] = creates[o] + 1
                       \/ turns'[t].pc = "llm_enhance"
            /\ EnhanceReturns(t) => creates'[o] = creates[o] + 1
            /\ (DetectFails(t) /\ objs[o].kb_searched)
                 => /\ searches'[o] = searches[o]
                    /\ creates'[o] = creates[o]
                    /\ turns'[t].pc \notin {"llm_enhance", "db_create"}]_vars

\* ------------------------------------ the engine: a state update without effect
\* the keys _llm_update_session_state reads (llm_service.py:413-426)
StateKeys == {"STATUS", "STEP", "INFO_GATHERED", "ALL_STEPS_DONE"}

\* the parsed outputs that hold none of the keys
KeylessTexts ==
    {parsed_text \in ParsedTexts : DOMAIN ParseLines(parsed_text) \cap StateKeys = {}}

\* this step is the end of the state-update step of the turn in slot t with
\* the state LLM call failed, the parsing LLM call failed (whatever text it
\* would have answered), or a parsed output that holds none of the keys
StateUpdateWithoutKeys(t) ==
    \/ turns[t].pc = "llm_state" /\ StateReturn(t, TRUE)
    \/ turns[t].pc = "llm_parse" /\ ParseReturn(t, TRUE, <<>>)
    \/ turns[t].pc = "llm_parse" /\ \E parsed_text \in KeylessTexts :
          ParseReturn(t, FALSE, parsed_text)

\* the turn in slot t, on its try branch, takes a step of its persistence
\* (update_incident_in_db, llm_service.py:216-222)
PersistenceStep(t) ==
    /\ turns[t].pc \in {"db_get", "db_update"}
    /\ ~turns[t].failed
    /\ turns'[t] # turns[t]

\* C33: when the state LLM call or the parsing LLM call fails, or the parsed
\* output holds none of the keys STATUS, STEP, INFO_GATHERED, ALL_STEPS_DONE,
\* the state-update step leaves status, current_step, required_info_gathered
\* and all_steps_completed of the session as they are, and the turn goes on
\* on its try branch: with an incident it calls update_incident_in_db with
\* the unchanged status, which is the status sent to the store and (when the
\* update reaches the store) the status stored, and it returns that status;
\* without an incident it returns the unchanged status at once.  While the
\* state-update step is suspended in its calls the session is not written.
C33_FailedStateUpdateNoChange ==
    [][\A t \in Slots :
         /\ StateUpdateWithoutKeys(t)
              => LET o == turns[t].state_session
                 IN /\ objs'[o].status = objs[o].status
                    /\ objs'[o].current_step = objs[o].current_step
                    /\ objs'[o].required_info_gathered = objs[o].required_info_gathered
                    /\ objs'[o].all_steps_completed = objs[o].all_steps_completed
                    /\ ~turns'[t].failed
                    /\ IF objs[o].incident_id # NoId
                       THEN /\ turns'[t].pc = "db_get"
                            /\ turns'[t].incident_id = objs[o].incident_id
                            /\ turns'[t].status = objs[o].status
                       ELSE /\ turns'[t].pc = "idle"
                            /\ Len(returned'[t]) = 4
                            /\ returned'[t][3] = objs[o].status
         /\ (turns[t].pc \in {"llm_state", "llm_parse"} /\ turns'[t].pc = "llm_parse")
              => objs'[turns[t].state_session] = objs[turns[t].state_session]
         /\ PersistenceStep(t)
              => /\ ~turns'[t].failed
                 /\ turns'[t].pc = "db_update"
                      => turns'[t].update_data[1].status = turns[t].status
                 /\ turns'[t].pc = "idle"
                      => /\ Len(returned'[t]) = 4
                         /\ returned'[t][3] = turns[t].status
                 /\ FinishesStored(t)
                      => \A i \in DOMAIN incidents' :
                            incidents'[i].incident_id = turns[t].incident_id
                              => incidents'[i].status = turns[t].status]_vars

\* C33 witness: a later turn of a session with an incident, whose state
\* update produced none of the keys, is writing the status the session had
\* at the start of the turn to the store
C33_Witness ==
    \E t \in Slots :
        /\ turns[t].pc = "db_update"
        /\ ~turns[t].failed
        /\ turns[t].start[1].incident_created
        /\ DOMAIN turns[t].state_updates \cap StateKeys = {}
        /\ turns[t].update_data[1].status = turns[t].start[1].status
        /\ objs[turns[t].session].status = turns[t].start[1].status

\* ------------------------------------ knowledge base: a successful replacement
\* C34: whenever update_knowledge_base_file returns True for a replacement
\* text, the KB store afterwards holds at least one entry and holds exactly
\* the entries parsed from that text; a text that passes the validation and
\* parses to no entry is therefore not reported as replaced.
C34_SuccessMeansReplaced ==
    [][(kb_run'.op = "update" /\ kb_run'.result = "True")
          => /\ collection' # {}
             /\ collection' = Batch(parse_knowledge_base(kb_run'.content, TRUE))]_vars

\* ------------------------------------------- the engine: the result of a turn
\* C35: on the try branch and on the except branch alike, the incident id and
\* the status in the result of a turn are what get_session_incident_id and
\* get_session_status answer for the session right after the turn; a failed
\* turn of a session with an incident returns that incident's id.
C35_ResultMatchesSession ==
    [][\A t \in Slots, s \in Sessions :
         (Finishes(t) /\ turns[t].session_id = s)
           => /\ returned'[t][2] = get_session_incident_id(s)'
              /\ returned'[t][3] = get_session_status(s)']_vars

\* ------------------------------------ the engine: admin status and chat turns
\* the turn in slot t, a turn after the one that created the incident, ends
\* in this step on its try branch with its update answered by the store, the
\* session's status being what it was when the turn started
UpdateOfUnchangedStatus(t) ==
    /\ turns[t].pc = "db_update"
    /\ ~turns[t].failed
    /\ turns'[t] # turns[t]
    /\ turns[t].start[1].incident_created
    /\ objs[turns[t].session].status = turns[t].start[1].status

\* C36: a status an admin update wrote to an incident is not overwritten by a
\* later chat turn of the owning session that leaves the session's status
\* unchanged: such a turn leaves the stored status as it is.
C36_AdminStatusKept ==
    [][\A t \in Slots, i \in DOMAIN incidents :
         (/\ UpdateOfUnchangedStatus(t)
          /\ nadmin > 0
          /\ incidents[i].incident_id = turns[t].incident_id
          /\ \E u \in IncidentUpdates : u.status = incidents[i].status)
           => incidents'[i].status = incidents[i].status]_vars

\* ------------------------------------------- overlapping turns of one session
\* The caller does not serialize: calls of handle_user_query with the same
\* session id are in flight together and interleave at their awaits, on the
\* same session dict.  The collaborators fail as under Spec and answer from
\* the sets of SpecIso; clear_session_data runs at any await.
NextOverlap ==
    \/ \E t \in Slots, s \in ChatSessions, q \in Queries : handle_user_query(t, s, q)
    \/ \E t \in Slots, failed \in BOOLEAN :
          ReplyReturn(t, failed, "What operating system are you using?")
    \/ \E t \in Slots, failed \in BOOLEAN, content \in {"TRUE", "FALSE"},
          search_results \in IsoSearchOutcomes :
          DetectReturn(t, failed, content, search_results)
    \/ \E t \in Slots, failed \in BOOLEAN : EnhanceReturn(t, failed, EnhancedReply)
    \/ \E t \in Slots, ok \in BOOLEAN : CreateReturn(t, ok)
    \/ \E t \in Slots, failed \in BOOLEAN : StateReturn(t, failed)
    \/ \E t \in Slots, failed \in BOOLEAN, parsed_text \in IsoParsedTexts :
          ParseReturn(t, failed, parsed_text)
    \/ \E t \in Slots, ok \in BOOLEAN : GetReturn(t, ok)
    \/ \E t \in Slots, ok \in BOOLEAN : UpdateReturn(t, ok)
    \/ \E s \in ChatSessions : clear_session_data(s)

SpecOverlap == Init /\ [][NextOverlap]_vars

\* C37: when turns of one session overlap and interleave at the awaits,
\* create_incident is called at most once for the session's dict, every call
\* inserts at most one document, and no two stored documents share an id: at
\* most one incident is inserted for the session.
C37_OverlapOneIncident ==
    /\ \A o \in DOMAIN objs : creates[o] <= 1
    /\ Len(incidents) <= uuid_counter
    /\ \A o \in DOMAIN objs : StoredCount(incidents, objs[o].incident_id) <= 1
    /\ \A i, j \in DOMAIN incidents :
          incidents[i].incident_id = incidents[j].incident_id => i = j

\* C37 witness: two turns of one session dict are in flight together, each
\* was classified as an incident and ran the KB search, and one incident is
\* stored for the session
C37_Witness ==
    \E t, u \in Slots :
        /\ t # u
        /\ turns[t].pc # "idle" /\ turns[u].pc # "idle"
        /\ turns[t].session = turns[u].session
        /\ turns[t].kb_queries = 1 /\ turns[u].kb_queries = 1
        /\ creates[turns[t].session] = 1
        /\ StoredCount(incidents, objs[turns[t].session].incident_id) = 1

\* ------------------------------------ the engine: a clear during a turn
\* the turn in slot t takes a step in which its collaborator answered (the
\* reply-generation call did not fail; the failures of the other calls are
\* caught where they are made), its session entry having been cleared
StepAfterClear(t) ==
    /\ turns[t].pc # "idle"
    /\ ~turns[t].failed
    /\ turns'[t] # turns[t]
    /\ session_data[turns[t].session_id] = 0
    /\ turns[t].pc = "llm_reply"
         => \E content \in Replies : ReplyReturn(t, FALSE, content)

\* C38: when clear_session_data(s) ran while a turn of s was suspended in an
\* external call, the turn goes on on its try branch: no later step of it
\* fails because the session entry is gone, it returns the result of the try
\* branch, and it writes no status Error to the store.
C38_ClearDuringTurnHarmless ==
    [][\A t \in Slots :
         StepAfterClear(t)
           => /\ ~turns'[t].failed
              /\ Finishes(t) => Len(returned'[t]) = 4
              /\ turns'[t].pc = "db_update"
                   => turns'[t].update_data[1].status # "Error"]_vars

\* ------------------------------------ the engine: a clear between turns
\* no call of handle_user_query with session id s is in flight
NoTurnInFlight(s) ==
    \A t \in Slots : turns[t].pc # "idle" => turns[t].session_id # s

\* the call in slot t starts in this step, with a session id that is not in
\* the session map
StartsAfresh(t) ==
    /\ turns[t].pc = "idle"
    /\ turns'[t].pc # "idle"
    /\ session_data[turns'[t].session_id] = 0

\* C39: clear_session_data(s) with no turn of s in flight leaves the store as
\* it is (the incident created for s stays, all its fields unchanged), and
\* after it get_session_status(s) answers 'No Incident' and
\* get_session_incident_id(s) none; the next turn with id s starts from the
\* initial session state (kb_searched false, incident_created false, empty
\* conversation, then the user's message) on a new dict, and no step of a
\* turn writes a stored incident other than the one of its own dict.
C39_ClearBetweenTurns ==
    [][/\ \A s \in Sessions :
             (NoTurnInFlight(s) /\ clear_session_data(s))
               => /\ get_session_status(s)' = "No Incident"
                  /\ get_session_incident_id(s)' = NoId
                  /\ incidents' = incidents
                  /\ objs' = objs
       /\ \A t \in Slots :
             StartsAfresh(t)
               => /\ turns'[t].start[1].session = NewSession
                  /\ turns'[t].session \notin DOMAIN objs
                  /\ ~objs'[turns'[t].session].kb_searched
                  /\ ~objs'[turns'[t].session].incident_created
                  /\ objs'[turns'[t].session].incident_id = NoId
                  /\ objs'[turns'[t].session].conversation
                        = <<Message("User", turns'[t].query)>>
                  /\ incidents' = incidents
       /\ \A t \in Slots, i \in DOMAIN incidents :
             (turns[t].pc # "idle" /\ turns'[t] # turns[t]
                /\ incidents[i].incident_id # turns[t].incident_id)
               => incidents'[i] = incidents[i]]_vars

\* C39 witness: the first turn of a session returned with the id of its
\* stored incident, the session was cleared, and the next turn with the same
\* id is in flight on a new dict that started from the initial state, the
\* incident of the first dict still stored
C39_Witness ==
    \E t \in Slots :
        /\ turns[t].pc # "idle"
        /\ turns[t].session = 2
        /\ turns[t].start[1].session = NewSession
        /\ nclears = 1
        /\ Len(returned[t]) = 4
        /\ returned[t][2] = objs[1].incident_id
        /\ objs[1].incident_id # NoId
        /\ StoredCount(incidents, objs[1].incident_id) = 1

====
